---- MODULE Spec2Model ----
(***************************************************************************)
(* A model of the MACAW test engine (Devlin-Moyer/macaw): the FVA executor *)
(* (macaw_fva.py), the dilution test (macaw_flux_based.py and              *)
(* macaw/flux_based.py), the dead-end test (macaw_structural.py), the      *)
(* dilution constraint builder (macaw/macaw_dilution.py), flip_reaction    *)
(* (macaw/utils.py), the duplicate and diphosphate tests                   *)
(* (macaw_structural.py), the loop test (macaw_flux_based.py), one worker  *)
(* process of the FVA pool (_fva_step, macaw_fva.py),                      *)
(* constrain_reversible_rxns (macaw/macaw_dilution.py) and                 *)
(* edit_dead_end_bounds (macaw/utils.py).                                  *)
(*                                                                         *)
(* Each program is a state machine of its own; `prog` says which one a     *)
(* behaviour runs.  The variables of the other programs stay at their      *)
(* initial values.                                                         *)
(***************************************************************************)
EXTENDS Integers, Sequences, FiniteSets, TLC

VARIABLES
    prog,         \* which entry point this behaviour runs
    \* ---- fva / pebble_fva (macaw_fva.py) ----
    fva_pc,       \* position in fva / pebble_fva
    timeout0,     \* the timeout argument passed to fva
    direc,        \* 'minimum' or 'maximum'
    to_do,        \* pebble_fva: to_do
    to_redo,      \* pebble_fva: to_redo
    attempts,     \* pebble_fva: attempts
    timeout,      \* pebble_fva: timeout (local, multiplied in place)
    i,            \* pebble_fva: i (0-based, as in the code)
    failed,       \* pebble_fva: failed
    iterator,     \* the pool.map result stream: submitted items and position
    out_df,       \* fva_result: direction -> reaction -> value
    fva_exc,      \* the exception that left fva, or "none"
    batches,      \* history: the batches of the current pebble_fva call
    got,          \* history: <<direction, reaction>> pairs a task returned a value for
    attrib,       \* history: producer/recorded item of every consumed outcome
    \* ---- the network and dead_end_test (macaw_structural.py) ----
    given_model,  \* the model object the caller passed in
    model,        \* the model object the test works on
    aliased,      \* TRUE when `model` is the caller's object, not a copy
    de_pc,        \* position in dead_end_test
    outer_left,   \* metabolites the loop over model.metabolites has not reached
    stack,        \* the active calls of _dead_end_test_inner: the metabolites
                  \* each one's loop has still to visit
    dead_end_mets, dead_end_rxns, fwd_only, rev_only,
    test_results, \* dead_end_test: reaction -> result
    visited,      \* history: metabolites _dead_end_test_inner classified, in order
    de_calls,     \* history: the number of calls of _dead_end_test_inner
    model_in,     \* history: the caller's model as it was when the call began
    \* ---- dilution_test (macaw_flux_based.py, macaw/flux_based.py) ----
    dil_pc,       \* position in dilution_test
    variant,      \* "script": macaw_flux_based.py, "package": macaw/flux_based.py
    verbose,      \* dilution_test: verbose
    max_attempts, \* dilution_test: max_attempts
    dead_end_results, \* dilution_test: dead_end_results (the dead_end_test column)
    before_zero,  \* fva_before: reaction -> its minimum and maximum are both 0
    mets_to_test, \* dilution_test: mets_to_test
    dil_to_redo,  \* dilution_test: to_redo
    dil_attempts, \* dilution_test: attempts
    dil_i,        \* dilution_test: i
    dil_iterator, \* dilution_test: iterator, made once before the loop
    met_dict,     \* dilution_test: met_dict
    rxn_dict,     \* dilution_test: rxn_dict
    dil_exc,      \* the exception that left dilution_test, or "none"
    blocked_mets, \* dilution_test: blocked_mets
    blocked_rxns, \* dilution_test: blocked_rxns
    dil_out,      \* the dilution_test column of the table returned
    \* ---- add_dilution_constraints (macaw/macaw_dilution.py) ----
    b_pc,         \* position in add_dilution_constraints
    b_calls,      \* 1: the call on the caller's model, 2: the call on its result
    mets_arg,     \* the mets_to_dilute argument ({}: None)
    mets_to_dilute, \* add_dilution_constraints: mets_to_dilute
    leak_flux,    \* add_dilution_constraints: leak_flux
    dil_factor,   \* add_dilution_constraints: dil_factor
    preprocess,   \* add_dilution_constraints: preprocess
    b_exc,        \* the exception that left add_dilution_constraints, or "none"
    \* ---- flip_reaction (macaw/utils.py) ----
    reaction,     \* the Reaction object flip_reaction is called on
    reaction_in,  \* history: the reaction as it was before the first call
    flips,        \* history: the number of calls of flip_reaction begun
    flip_exc,     \* the exception that left flip_reaction, or "none"
    \* ---- duplicate_test (macaw_structural.py) ----
    dup_pc,       \* position in duplicate_test
    dup_pairs,    \* the pairs it.combinations(model.reactions, 2) has yet to yield
    exact_dupes, direction_dupes, stoich_dupes,
    redox_pairs,  \* duplicate_test: redox_pairs, a list of pairs of ids
    proton_ids,   \* duplicate_test: proton_ids
    dup_verbose,  \* duplicate_test: verbose
    redox_mets,   \* duplicate_test: redox_mets
    redox_dupes,  \* duplicate_test: redox_dupes
    dup_exc,      \* the exception that left duplicate_test, or "none"
    \* ---- diphosphate_test (macaw_structural.py) ----
    diph_pc,      \* position in diphosphate_test
    ppi_ids,      \* diphosphate_test: ppi_ids
    pi_ids,       \* diphosphate_test: pi_ids
    diph_verbose, \* diphosphate_test: verbose
    diph_left,    \* the reactions the loop over model.reactions has yet to reach
    result_dict,  \* diphosphate_test: result_dict, as a list of rows
    \* ---- loop_test (macaw_flux_based.py) ----
    loop_pc,      \* position in loop_test
    loop_model,   \* loop_test: model, the copy whose bounds it edits
    fva_results,  \* loop_test: fva_results, reaction -> minimum and maximum
    loop_labels,  \* loop_test: the loop_test column of fva_results
    \* ---- the table a test returns ----
    out_ids,      \* the reaction_id column of the table returned, row by row
    \* ---- one worker process of the FVA pool: _fva_step (macaw_fva.py) ----
    w_pc,         \* position of the worker in _fva_step ("idle": between tasks)
    objective,    \* the objective coefficients of the worker's global model
    w_queue,      \* the targets the pool hands to this worker, in order
    w_done,       \* history: how the tasks of this worker process ended
    w_raised,     \* history: a task of this process raised after line 328
    \* ---- constrain_reversible_rxns (macaw/macaw_dilution.py) ----
    cr_pc,        \* position in constrain_reversible_rxns
    cr_given,     \* constrain_reversible_rxns: given_model
    cr_model,     \* constrain_reversible_rxns: model, the copy it edits
    cr_results,   \* constrain_reversible_rxns: fva_results, reaction -> row
    cr_left,      \* the rows fva_results.iterrows() has yet to yield
    \* ---- edit_dead_end_bounds (macaw/utils.py) after dead_end_test ----
    ed_pc,        \* position in edit_dead_end_bounds
    ed_given,     \* the model given to dead_end_test and edit_dead_end_bounds
    ed_working,   \* dead_end_test: model, its working copy, when it returns
    ed_results,   \* edit_dead_end_bounds: results, the table of the test
    ed_model,     \* edit_dead_end_bounds: model, the copy it edits
    ed_left,      \* the rows results.iterrows() has yet to yield
    ed_exc        \* the exception edit_dead_end_bounds raised, or "none"

fvaVars == <<fva_pc, timeout0, direc, to_do, to_redo, attempts, timeout, i,
             failed, iterator, out_df, fva_exc, batches, got>>

deVars == <<given_model, model, aliased, de_pc, outer_left, stack,
            dead_end_mets, dead_end_rxns, fwd_only, rev_only, test_results,
            visited, de_calls>>

dilVars == <<dil_pc, variant, verbose, max_attempts, dead_end_results,
             before_zero,
             mets_to_test, dil_to_redo, dil_attempts, dil_i, dil_iterator,
             met_dict, rxn_dict, dil_exc, blocked_mets, blocked_rxns, dil_out>>

bldVars == <<b_pc, b_calls, mets_arg, mets_to_dilute, leak_flux, dil_factor,
             preprocess, b_exc>>

flipVars == <<reaction, reaction_in, flips, flip_exc>>

dupVars == <<dup_pc, dup_pairs, exact_dupes, direction_dupes, stoich_dupes,
             redox_pairs, proton_ids, dup_verbose, redox_mets, redox_dupes,
             dup_exc>>

diphVars == <<diph_pc, ppi_ids, pi_ids, diph_verbose, diph_left, result_dict>>

loopVars == <<loop_pc, loop_model, fva_results, loop_labels>>

wkVars == <<w_pc, objective, w_queue, w_done, w_raised>>

\* the programs that keep no table
crVars == <<cr_pc, cr_given, cr_model, cr_results, cr_left>>

edVars == <<ed_pc, ed_given, ed_working, ed_results, ed_model, ed_left,
            ed_exc>>

extVars == <<wkVars, crVars, edVars>>

tblVars == <<flipVars, dupVars, diphVars, loopVars, extVars>>

vars == <<prog, fvaVars, attrib, deVars, model_in, dilVars, bldVars, tblVars,
          out_ids>>

(***************************************************************************)
(* Bounds of the model                                                     *)
(***************************************************************************)
\* number of FVA targets (reaction_ids) requested from fva
NumTargets == 3
\* number of metabolites and of reactions of the networks
NumMets == 3
NumRxns == 3
\* the most metabolites one reaction of a network has
MaxRxnMets == 2

(***************************************************************************)
(* Program constants                                                       *)
(***************************************************************************)
\* pebble_fva: max_attempts = 3
FvaMaxAttempts == 3

Targets == 1..NumTargets

\* reaction_ids: the targets in the order they are submitted
reaction_ids == [k \in 1..NumTargets |-> k]

\* the timeout values a caller passes
TimeoutInputs == {1, 5}

(***************************************************************************)
(* Outcomes of one pool task.  A task either returns (the solver status    *)
(* decides the value), times out (concurrent.futures.TimeoutError), dies   *)
(* (pebble.ProcessExpired) or raises any other exception.                  *)
(***************************************************************************)
SolverResults == {"optimal_zero", "optimal_tiny", "optimal_nonzero",
                  "unbounded", "infeasible"}

TaskFailures == {"timeout", "expired", "raised"}

TaskOutcomes == SolverResults \cup TaskFailures

\* _fva_step: the value returned for a solver status and objective direction
FvaStepValue(status, direction) ==
    CASE status = "optimal_zero"    -> "zero"
      [] status = "optimal_tiny"    -> "tiny"
      [] status = "optimal_nonzero" -> "nonzero"
      [] status = "unbounded"       ->
             IF direction = "maximum" THEN "inf" ELSE "-inf"
      [] OTHER                      -> "nan"

\* the except clause of pebble_fva's inner loop that handles an outcome
FvaHandler(outcome) ==
    CASE outcome \in SolverResults -> "store"
      [] outcome = "stop"          -> "break"
      [] outcome = "timeout"       -> "redo"
      [] OTHER                     -> "failed"

\* fva: the lambda that rounds values within zero_thresh of 0 to 0
RoundToZero(x) == IF x = "tiny" THEN "zero" ELSE x

\* the next outcomes an iterator can yield: StopIteration once every
\* submitted item was consumed, else any task outcome of the next item
NextOutcomes(it) ==
    IF it.pos >= Len(it.items) THEN {"stop"} ELSE TaskOutcomes

\* the item that produces the outcome the iterator yields next
Producer(it) == it.items[it.pos + 1]


(***************************************************************************)
(* The network: a cobra.Model reduced to what the tests read and write.    *)
(* S[r][m] is the stoichiometric coefficient of metabolite m in reaction r *)
(* (0: m is not in r.metabolites), lb and ub are the flux bounds.          *)
(***************************************************************************)
Mets == 1..NumMets

Rxns == 1..NumRxns

\* the stoichiometric coefficients the networks use
Coefs == {-1, 1}

\* the (lower_bound, upper_bound) pairs the networks use: irreversible
\* forward, reversible, irreversible backward
BoundKinds == {<<0, 1000>>, <<-1000, 1000>>, <<-1000, 0>>}

\* one reaction: its coefficients and bounds; it has at least one metabolite
Rows == {row \in [Mets -> Coefs \cup {0}] :
            LET n == Cardinality({m \in Mets : row[m] # 0})
            IN  n >= 1 /\ n <= MaxRxnMets}

Templates == {t \in [row : Rows, b : BoundKinds] : TRUE}

\* a number for each template, to list the reactions of a network in one
\* order only (the order of model.reactions decides no result here)
RECURSIVE RowCode(_, _)
RowCode(row, m) ==
    IF m > NumMets THEN 0 ELSE (row[m] + 1) + 3 * RowCode(row, m + 1)

BoundCode(b) == IF b[1] = 0 THEN 0 ELSE IF b[2] = 0 THEN 2 ELSE 1

TemplateCode(t) == BoundCode(t.b) + 3 * RowCode(t.row, 1)

RECURSIVE SortedTemplates(_)
SortedTemplates(n) ==
    IF n = 0 THEN {<<>>}
    ELSE {Append(p[1], p[2]) :
            p \in {q \in SortedTemplates(n - 1) \X Templates :
                      \/ Len(q[1]) = 0
                      \/ TemplateCode(q[1][Len(q[1])]) <= TemplateCode(q[2])}}

MakeModel(ts) ==
    [S  |-> [r \in Rxns |-> ts[r].row],
     lb |-> [r \in Rxns |-> ts[r].b[1]],
     ub |-> [r \in Rxns |-> ts[r].b[2]]]

\* the models a caller passes in
Networks == {MakeModel(ts) : ts \in SortedTemplates(NumRxns)}

\* met.reactions
RxnsOf(mdl, m) == {r \in Rxns : mdl.S[r][m] # 0}

\* r.metabolites
MetsOf(mdl, r) == {m \in DOMAIN mdl.S[r] : mdl.S[r][m] # 0}

\* r.reactants and r.products (cobra: coefficient < 0, coefficient >= 0)
Reactants(mdl, r) == {m \in MetsOf(mdl, r) : mdl.S[r][m] < 0}

Products(mdl, r) == {m \in MetsOf(mdl, r) : mdl.S[r][m] >= 0}

\* r.reversibility (cobra: lower_bound < 0 < upper_bound)
Reversibility(mdl, r) == mdl.lb[r] < 0 /\ 0 < mdl.ub[r]

\* r.boundary (cobra: one metabolite only)
Boundary(mdl, r) == Cardinality(MetsOf(mdl, r)) = 1

\* x in a Python list
InList(x, lst) == \E k \in 1..Len(lst) : lst[k] = x

\* a list of the elements of a set, in increasing order
RECURSIVE SetToList(_)
SetToList(set) ==
    IF set = {} THEN <<>>
    ELSE LET x == CHOOSE y \in set : \A z \in set : y <= z
         IN <<x>> \o SetToList(set \ {x})

\* flip_reaction: negate every coefficient, swap and negate the bounds
flip_reaction(mdl, r) ==
    [mdl EXCEPT !.S[r] = [m \in Mets |-> 0 - mdl.S[r][m]],
                !.lb[r] = 0 - mdl.ub[r],
                !.ub[r] = 0 - mdl.lb[r]]

\* [r.id for r in model.reactions]: the ids of the caller's reactions, and
\* after them those of the reactions `extra` added to a copy
ReactionIds(extra) == SetToList(Rxns) \o SetToList(extra)

\* df['reaction_id'].map(d) and df.insert(...): a column is added, one value
\* per row (NaN where d has no key), and no row is added or dropped
WithColumn(ids, keys) == ids

\* utils.add_reaction_equations(df, model): the reaction_equation column is
\* inserted, or the table returned as it is
add_reaction_equations(ids) == WithColumn(ids, Rxns)

\* a join that keeps the left rows without a match (how="left")
RECURSIVE MergeLeft(_, _)
MergeLeft(left, right) ==
    IF left = <<>> THEN <<>>
    ELSE (IF \E k \in 1..Len(right) : right[k] = Head(left)
          THEN SelectSeq(right, LAMBDA x : x = Head(left))
          ELSE <<Head(left)>>) \o MergeLeft(Tail(left), right)

\* left.merge(right) on the one shared column reaction_id (an inner join):
\* a row for every pair of a left and a right row with the same id, in the
\* order of the left rows
RECURSIVE Merge(_, _)
Merge(left, right) ==
    IF left = <<>> THEN <<>>
    ELSE SelectSeq(right, LAMBDA x : x = Head(left)) \o Merge(Tail(left), right)

(***************************************************************************)
(* The variables of a program that a behaviour does not run                *)
(***************************************************************************)
NoResults == [r \in Rxns |-> "none"]

\* the model held by a program that is not run
IdleModel ==
    MakeModel([r \in Rxns |->
                  [row |-> [m \in Mets |-> IF m = 1 THEN 1 ELSE 0],
                   b |-> <<0, 1000>>]])

IdleDe ==
    /\ given_model = IdleModel
    /\ model = given_model
    /\ aliased = FALSE
    /\ de_pc = "idle"
    /\ outer_left = {}
    /\ stack = <<>>
    /\ dead_end_mets = <<>>
    /\ dead_end_rxns = <<>>
    /\ fwd_only = <<>>
    /\ rev_only = <<>>
    /\ test_results = NoResults
    /\ visited = <<>>
    /\ de_calls = 0

IdleFva ==
    /\ fva_pc = "idle"
    /\ timeout0 = 0
    /\ direc = "none"
    /\ to_do = <<>>
    /\ to_redo = <<>>
    /\ attempts = 0
    /\ timeout = 0
    /\ i = 0
    /\ failed = 0
    /\ iterator = [items |-> <<>>, pos |-> 0]
    /\ out_df = [d \in {"minimum", "maximum"} |-> [r \in Targets |-> "unset"]]
    /\ fva_exc = "none"
    /\ batches = <<>>
    /\ got = {}

NoDilResults == [r \in Rxns |-> [kind |-> "none", mets |-> {}]]

IdleDil ==
    /\ dil_pc = "idle"
    /\ variant = "none"
    /\ verbose = 0
    /\ max_attempts = 0
    /\ dead_end_results = NoDilResults
    /\ before_zero = [r \in Rxns |-> FALSE]
    /\ mets_to_test = <<>>
    /\ dil_to_redo = <<>>
    /\ dil_attempts = 0
    /\ dil_i = 0
    /\ dil_iterator = [items |-> <<>>, pos |-> 0]
    /\ met_dict = [m \in Mets |-> ""]
    /\ rxn_dict = [r \in Rxns |-> ""]
    /\ dil_exc = "none"
    /\ blocked_mets = <<>>
    /\ blocked_rxns = <<>>
    /\ dil_out = NoDilResults

IdleBuild ==
    /\ b_pc = "idle"
    /\ b_calls = 0
    /\ mets_arg = {}
    /\ mets_to_dilute = {}
    /\ leak_flux = 0
    /\ dil_factor = 0
    /\ preprocess = FALSE
    /\ b_exc = "none"

NoReaction == [S |-> [m \in Mets |-> 0], lb |-> 0, ub |-> 0]

IdleFlip ==
    /\ reaction = NoReaction
    /\ reaction_in = NoReaction
    /\ flips = 0
    /\ flip_exc = "none"

NoDupes == [r \in Rxns |-> <<>>]

IdleDup ==
    /\ dup_pc = "idle"
    /\ dup_pairs = <<>>
    /\ exact_dupes = NoDupes
    /\ direction_dupes = NoDupes
    /\ stoich_dupes = NoDupes
    /\ redox_pairs = <<>>
    /\ proton_ids = <<>>
    /\ dup_verbose = 0
    /\ redox_mets = {}
    /\ redox_dupes = NoDupes
    /\ dup_exc = "none"

\* the variables of dead_end_test other than the caller's model
IdleDeRest ==
    /\ model = given_model
    /\ aliased = FALSE
    /\ de_pc = "idle"
    /\ outer_left = {}
    /\ stack = <<>>
    /\ dead_end_mets = <<>>
    /\ dead_end_rxns = <<>>
    /\ fwd_only = <<>>
    /\ rev_only = <<>>
    /\ test_results = NoResults
    /\ visited = <<>>
    /\ de_calls = 0

IdleDiph ==
    /\ diph_pc = "idle"
    /\ ppi_ids = {}
    /\ pi_ids = {}
    /\ diph_verbose = 0
    /\ diph_left = <<>>
    /\ result_dict = <<>>

NoFvaResults == [r \in Rxns |-> [minimum |-> "unset", maximum |-> "unset"]]

IdleLoop ==
    /\ loop_pc = "idle"
    /\ loop_model = IdleModel
    /\ fva_results = NoFvaResults
    /\ loop_labels = NoResults

\* the reactions of the model a pool worker holds, by id
WorkerRxnIds == {<<"a">>, <<"b">>}

\* model.objective = Zero: every coefficient is 0
ZeroObjective == [id \in WorkerRxnIds |-> [forward |-> 0, reverse |-> 0]]

IdleWorker ==
    /\ w_pc = "off"
    /\ objective = ZeroObjective
    /\ w_queue = <<>>
    /\ w_done = <<>>
    /\ w_raised = FALSE

IdleConstrain ==
    /\ cr_pc = "off"
    /\ cr_given = IdleModel
    /\ cr_model = IdleModel
    /\ cr_results = <<>>
    /\ cr_left = <<>>

IdleEdit ==
    /\ ed_pc = "off"
    /\ ed_given = IdleModel
    /\ ed_working = IdleModel
    /\ ed_results = NoResults
    /\ ed_model = IdleModel
    /\ ed_left = <<>>
    /\ ed_exc = "none"

IdleExt == IdleWorker /\ IdleConstrain /\ IdleEdit

IdleTbl ==
    IdleFlip /\ IdleDup /\ IdleDiph /\ IdleLoop /\ IdleExt /\ out_ids = <<>>

\* every program of the tests is idle
IdleTests ==
    /\ IdleFva
    /\ IdleDe
    /\ IdleDil
    /\ IdleBuild
    /\ IdleFlip
    /\ IdleDup
    /\ IdleDiph
    /\ IdleLoop
    /\ attrib = {}
    /\ model_in = given_model
    /\ out_ids = <<>>

(***************************************************************************)
(* fva and pebble_fva                                                      *)
(***************************************************************************)
InitFva ==
    /\ prog = "fva"
    /\ IdleDe
    /\ IdleDil
    /\ IdleBuild
    /\ IdleTbl
    /\ model_in = given_model
    /\ fva_pc = "fva"
    /\ timeout0 \in TimeoutInputs
    /\ direc \in {"minimum", "maximum"}
    /\ to_do = <<>>
    /\ to_redo = <<>>
    /\ attempts = 0
    /\ timeout = 0
    /\ i = 0
    /\ failed = 0
    /\ iterator = [items |-> <<>>, pos |-> 0]
    /\ out_df = [d \in {"minimum", "maximum"} |-> [r \in Targets |-> "unset"]]
    /\ fva_exc = "none"
    /\ batches = <<>>
    /\ got = {}
    /\ attrib = {}

\* fva, lines 164-169: the output table starts as zeros.  The two passes of
\* the loop over the directions share only the table, of which each writes
\* its own column (pebble_fva's other variables are locals of the call), so
\* a behaviour follows the pass for one direction, chosen in Init.
FvaPrepare ==
    /\ prog = "fva" /\ fva_pc = "fva"
    /\ out_df' = [d \in {"minimum", "maximum"} |-> [r \in Targets |-> "zero"]]
    /\ fva_pc' = "pebble_fva"
    /\ UNCHANGED <<prog, timeout0, direc, to_do, to_redo, attempts, timeout,
                   i, failed, iterator, fva_exc, batches, got, attrib>>

\* pebble_fva, lines 206-215
PebbleStart ==
    /\ prog = "fva" /\ fva_pc = "pebble_fva"
    /\ to_do' = reaction_ids
    /\ attempts' = 0
    /\ timeout' = timeout0
    /\ to_redo' = <<>>
    /\ batches' = <<>>
    /\ fva_pc' = "while"
    /\ UNCHANGED <<prog, timeout0, direc, i, failed, iterator, out_df,
                   fva_exc, got, attrib>>

\* pebble_fva, lines 216-233: one more batch, or leave the loop
BatchTimeout(t, k) == t * k

PebbleWhile ==
    /\ prog = "fva" /\ fva_pc = "while"
    /\ IF to_do = <<>>
       THEN /\ fva_pc' = "close"
            /\ UNCHANGED <<attempts, timeout, iterator, i, to_redo, failed,
                           batches>>
       ELSE /\ attempts' = attempts + 1
            /\ timeout' = BatchTimeout(timeout, attempts + 1)
            /\ iterator' = [items |-> to_do, pos |-> 0]
            /\ i' = 0
            /\ to_redo' = <<>>
            /\ failed' = 0
            /\ batches' = Append(batches,
                   [direc |-> direc, attempt |-> attempts + 1,
                    items |-> to_do,
                    timeout |-> BatchTimeout(timeout, attempts + 1)])
            /\ fva_pc' = "consume"
    /\ UNCHANGED <<prog, timeout0, direc, to_do, out_df, fva_exc, got, attrib>>

\* pebble_fva, lines 266-267: `finally: i += 1` runs whatever the outcome
FvaFinallyOnValue(idx, h) == IF h = "store" THEN idx + 1 ELSE idx

FvaFinally(idx, h) == idx + 1

\* pebble_fva, lines 234-267: one pass of the inner `while True`
PebbleConsume ==
    /\ prog = "fva" /\ fva_pc = "consume"
    /\ \E outcome \in NextOutcomes(iterator) :
         LET h == FvaHandler(outcome)
             inRange == i + 1 <= Len(to_do)
         IN
         /\ iterator' = IF outcome = "stop" THEN iterator
                        ELSE [iterator EXCEPT !.pos = @ + 1]
         /\ attrib' = IF outcome # "stop" /\ inRange /\ h # "propagate"
                      THEN attrib \cup {[prog |-> "fva",
                                         producer |-> Producer(iterator),
                                         recorded |-> to_do[i + 1]]}
                      ELSE attrib
         /\ i' = FvaFinally(i, h)
         /\ CASE h = "store" /\ inRange ->
                   /\ out_df' = [out_df EXCEPT ![direc][to_do[i + 1]] =
                                     FvaStepValue(outcome, direc)]
                   /\ got' = got \cup {<<direc, to_do[i + 1]>>}
                   /\ UNCHANGED <<to_redo, failed, fva_exc, fva_pc>>
              [] h = "store" /\ ~inRange ->
                   \* IndexError, caught with StopIteration: break
                   /\ fva_pc' = "batch_end"
                   /\ UNCHANGED <<out_df, got, to_redo, failed, fva_exc>>
              [] h = "break" ->
                   /\ fva_pc' = "batch_end"
                   /\ UNCHANGED <<out_df, got, to_redo, failed, fva_exc>>
              [] h = "redo" /\ inRange ->
                   /\ to_redo' = Append(to_redo, to_do[i + 1])
                   /\ UNCHANGED <<out_df, got, failed, fva_exc, fva_pc>>
              [] h = "redo" /\ ~inRange ->
                   \* IndexError raised inside the except clause: not caught
                   /\ fva_exc' = "IndexError"
                   /\ fva_pc' = "raised"
                   /\ UNCHANGED <<out_df, got, to_redo, failed>>
              [] h = "failed" ->
                   /\ failed' = failed + 1
                   /\ UNCHANGED <<out_df, got, to_redo, fva_exc, fva_pc>>
              [] OTHER ->
                   \* no except clause matches: the exception leaves fva
                   /\ fva_exc' = outcome
                   /\ fva_pc' = "raised"
                   /\ UNCHANGED <<out_df, got, to_redo, failed>>
    /\ UNCHANGED <<prog, timeout0, direc, to_do, attempts, timeout, batches>>

\* pebble_fva, lines 280-290
GiveUpNever(n, todo) == FALSE

GiveUp(n, todo) == (Len(todo) > 0) /\ (n >= FvaMaxAttempts)

PebbleBatchEnd ==
    /\ prog = "fva" /\ fva_pc = "batch_end"
    /\ to_do' = to_redo
    /\ IF GiveUp(attempts, to_redo)
       THEN /\ out_df' = [out_df EXCEPT ![direc] =
                   [r \in Targets |->
                       IF \E k \in 1..Len(to_redo) : to_redo[k] = r
                       THEN "nan" ELSE @[r]]]
            /\ fva_pc' = "close"
       ELSE /\ fva_pc' = "while"
            /\ UNCHANGED out_df
    /\ UNCHANGED <<prog, timeout0, direc, to_redo, attempts, timeout, i,
                   failed, iterator, fva_exc, batches, got, attrib>>

\* pebble_fva, lines 291-293: the pool is closed and the call returns
PebbleClose ==
    /\ prog = "fva" /\ fva_pc = "close"
    /\ fva_pc' = "round"
    /\ UNCHANGED <<prog, timeout0, direc, to_do, to_redo, attempts, timeout,
                   i, failed, iterator, out_df, fva_exc, batches, got, attrib>>

\* fva, lines 177-184
FvaRound ==
    /\ prog = "fva" /\ fva_pc = "round"
    /\ out_df' = [d \in {"minimum", "maximum"} |->
                    [r \in Targets |-> RoundToZero(out_df[d][r])]]
    /\ fva_pc' = "done"
    /\ UNCHANGED <<prog, timeout0, direc, to_do, to_redo, attempts, timeout,
                   i, failed, iterator, fva_exc, batches, got, attrib>>


(***************************************************************************)
(* dead_end_test and _dead_end_test_inner                                  *)
(***************************************************************************)
\* the lists and the model _dead_end_test_inner reads and writes
DeState == [model |-> model, dead_end_mets |-> dead_end_mets,
            dead_end_rxns |-> dead_end_rxns, fwd_only |-> fwd_only,
            rev_only |-> rev_only]

\* _dead_end_test_inner, line 86: the test that skips a classified metabolite
AlreadyDeadNever(met, mets) == FALSE

AlreadyDead(met, mets) == InList(met, mets)

\* a restriction that sets lower_bound = 0 whichever side met_to_check is on
RestrictKeepsDirection(st, met, rev, wanted) ==
    [st EXCEPT !.model.lb[rev] = 0, !.fwd_only = Append(@, rev)]

\* a restriction that closes the unwanted direction by upper_bound = 0 and
\* leaves the reaction as it is written
RestrictWithoutFlip(st, met, rev, wanted) ==
    LET keeps == IF wanted = "consume"
                 THEN met \in Reactants(st.model, rev)
                 ELSE met \in Products(st.model, rev)
    IN IF keeps
       THEN [st EXCEPT !.model.lb[rev] = 0,
                       !.fwd_only = Append(@, rev)]
       ELSE [st EXCEPT !.model.ub[rev] = 0,
                       !.rev_only = Append(@, rev)]

\* _dead_end_test_inner, lines 135-174: one reversible reaction `rev` among
\* reactions that all produce (wanted = "consume") or all consume
\* (wanted = "produce") met_to_check
Restrict(st, met, rev, wanted) ==
    LET keeps == IF wanted = "consume"
                 THEN met \in Reactants(st.model, rev)
                 ELSE met \in Products(st.model, rev)
    IN IF keeps
       THEN [st EXCEPT !.model.lb[rev] = 0,
                       !.fwd_only = Append(@, rev)]
       ELSE LET flipped == flip_reaction(st.model, rev)
            IN [st EXCEPT !.model = [flipped EXCEPT !.lb[rev] = 0],
                          !.rev_only = Append(@, rev)]

\* _dead_end_test_inner without the loop of lines 103-107: the metabolites
\* of a reaction that has just become a dead end are not examined again
DeadEndInnerNoRevisit(st, met) ==
    IF AlreadyDead(met, st.dead_end_mets)
    THEN [st |-> st, loop |-> {}, guarded |-> FALSE, classified |-> FALSE]
    ELSE
    LET rxns_to_check == {r \in RxnsOf(st.model, met) :
                             ~InList(r, st.dead_end_rxns)}
        rev_rxns   == {r \in rxns_to_check : Reversibility(st.model, r)}
        irrev_rxns == rxns_to_check \ rev_rxns
        all_prod   == \A r \in irrev_rxns : met \in Products(st.model, r)
        all_cons   == \A r \in irrev_rxns : met \in Reactants(st.model, r)
        the_rev    == CHOOSE r \in rev_rxns : TRUE
    IN
    IF Cardinality(rxns_to_check) < 2
    THEN [st |-> [st EXCEPT
                    !.dead_end_mets = Append(@, met),
                    !.dead_end_rxns = @ \o SetToList(rxns_to_check)],
          loop |-> {}, guarded |-> TRUE, classified |-> TRUE]
    ELSE IF (Cardinality(rev_rxns) = 0) /\ (all_prod \/ all_cons)
    THEN [st |-> [st EXCEPT
                    !.dead_end_mets = Append(@, met),
                    !.dead_end_rxns = @ \o SetToList(rxns_to_check)],
          loop |-> {m \in UNION {MetsOf(st.model, r) : r \in rxns_to_check} :
                       ~InList(m, Append(st.dead_end_mets, met))},
          guarded |-> FALSE, classified |-> TRUE]
    ELSE IF (Cardinality(rev_rxns) = 1) /\ all_prod
    THEN [st |-> Restrict(st, met, the_rev, "consume"),
          loop |-> MetsOf(st.model, the_rev) \ {met},
          guarded |-> TRUE, classified |-> FALSE]
    ELSE IF (Cardinality(rev_rxns) = 1) /\ all_cons
    THEN [st |-> Restrict(st, met, the_rev, "produce"),
          loop |-> MetsOf(st.model, the_rev) \ {met},
          guarded |-> TRUE, classified |-> FALSE]
    ELSE [st |-> st, loop |-> {}, guarded |-> FALSE, classified |-> FALSE]

\* _dead_end_test_inner, lines 86-174, up to the loop that recurses: the new
\* lists and model, and the metabolites that loop goes over
DeadEndInner(st, met) ==
    IF AlreadyDead(met, st.dead_end_mets)
    THEN [st |-> st, loop |-> {}, guarded |-> FALSE, classified |-> FALSE]
    ELSE
    LET rxns_to_check == {r \in RxnsOf(st.model, met) :
                             ~InList(r, st.dead_end_rxns)}
        rev_rxns   == {r \in rxns_to_check : Reversibility(st.model, r)}
        irrev_rxns == rxns_to_check \ rev_rxns
        all_prod   == \A r \in irrev_rxns : met \in Products(st.model, r)
        all_cons   == \A r \in irrev_rxns : met \in Reactants(st.model, r)
        the_rev    == CHOOSE r \in rev_rxns : TRUE
    IN
    IF Cardinality(rxns_to_check) < 2
    THEN [st |-> [st EXCEPT
                    !.dead_end_mets = Append(@, met),
                    !.dead_end_rxns = @ \o SetToList(rxns_to_check)],
          loop |-> UNION {MetsOf(st.model, r) : r \in rxns_to_check},
          guarded |-> TRUE, classified |-> TRUE]
    ELSE IF (Cardinality(rev_rxns) = 0) /\ (all_prod \/ all_cons)
    THEN [st |-> [st EXCEPT
                    !.dead_end_mets = Append(@, met),
                    !.dead_end_rxns = @ \o SetToList(rxns_to_check)],
          loop |-> {m \in UNION {MetsOf(st.model, r) : r \in rxns_to_check} :
                       ~InList(m, Append(st.dead_end_mets, met))},
          guarded |-> FALSE, classified |-> TRUE]
    ELSE IF (Cardinality(rev_rxns) = 1) /\ all_prod
    THEN [st |-> Restrict(st, met, the_rev, "consume"),
          loop |-> MetsOf(st.model, the_rev) \ {met},
          guarded |-> TRUE, classified |-> FALSE]
    ELSE IF (Cardinality(rev_rxns) = 1) /\ all_cons
    THEN [st |-> Restrict(st, met, the_rev, "produce"),
          loop |-> MetsOf(st.model, the_rev) \ {met},
          guarded |-> TRUE, classified |-> FALSE]
    ELSE [st |-> st, loop |-> {}, guarded |-> FALSE, classified |-> FALSE]

\* the effect of one call of _dead_end_test_inner(met, ...) made with the
\* frames `frames` below it: the body up to its loop runs, and the loop
\* becomes the newest frame (`guarded`: the loop tests
\* `m not in dead_end_mets` itself before it recurses)
CallInner(met, frames) ==
    LET res == DeadEndInner(DeState, met)
    IN /\ model' = res.st.model
       /\ given_model' = IF aliased THEN res.st.model ELSE given_model
       /\ dead_end_mets' = res.st.dead_end_mets
       /\ dead_end_rxns' = res.st.dead_end_rxns
       /\ fwd_only' = res.st.fwd_only
       /\ rev_only' = res.st.rev_only
       /\ visited' = IF res.classified THEN Append(visited, met) ELSE visited
       /\ de_calls' = de_calls + 1
       /\ stack' = IF res.loop = {} THEN frames
                   ELSE <<[mets |-> res.loop, guarded |-> res.guarded]>>
                        \o frames

InitDeadEnd ==
    /\ prog = "dead_end_test"
    /\ IdleFva
    /\ IdleDil
    /\ IdleBuild
    /\ IdleTbl
    /\ attrib = {}
    /\ given_model \in Networks
    /\ model_in = given_model
    \* dead_end_test, lines 29-33
    /\ model = given_model
    /\ aliased = FALSE
    /\ de_pc = "loop"
    /\ outer_left = Mets
    /\ stack = <<>>
    /\ dead_end_mets = <<>>
    /\ dead_end_rxns = <<>>
    /\ fwd_only = <<>>
    /\ rev_only = <<>>
    /\ test_results = NoResults
    /\ visited = <<>>
    /\ de_calls = 0

\* model.metabolites is a list: its loop goes by increasing index.  Every
\* renumbering of the metabolites of a network is a network of Networks too,
\* so every order of visiting the metabolites of a network is covered.
NextMet(left) == CHOOSE m \in left : \A n \in left : m <= n

\* dead_end_test, lines 36-39: the next metabolite of model.metabolites
DeOuter ==
    /\ prog = "dead_end_test"
    /\ de_pc = "loop" /\ stack = <<>> /\ outer_left # {}
    /\ LET met == NextMet(outer_left)
       IN /\ outer_left' = outer_left \ {met}
          /\ CallInner(met, stack)
    /\ UNCHANGED <<prog, aliased, de_pc, test_results>>

\* _dead_end_test_inner: the next metabolite of the innermost running loop
\* (lines 103-107, 131-134, 155-159, 170-174)
DeRecurse ==
    /\ de_pc = "loop" /\ stack # <<>> /\ Head(stack).mets # {}
    /\ \E m \in Head(stack).mets :
         LET rest == <<[Head(stack) EXCEPT !.mets = @ \ {m}]>> \o Tail(stack)
         IN IF Head(stack).guarded /\ InList(m, dead_end_mets)
            THEN /\ stack' = rest
                 /\ UNCHANGED <<given_model, model, dead_end_mets,
                                dead_end_rxns, fwd_only, rev_only, visited,
                                de_calls>>
            ELSE CallInner(m, rest)
    /\ UNCHANGED <<prog, aliased, de_pc, outer_left, test_results>>

\* _dead_end_test_inner: a loop ran out, the call returns
DeReturn ==
    /\ de_pc = "loop" /\ stack # <<>> /\ Head(stack).mets = {}
    /\ stack' = Tail(stack)
    /\ UNCHANGED <<prog, given_model, model, aliased, de_pc, outer_left,
                   dead_end_mets, dead_end_rxns, fwd_only, rev_only,
                   test_results, visited, de_calls>>

\* dead_end_test, lines 46-58: the result of one reaction
DeadEndResult(mdl, mets, rxns, fwd, rev, r) ==
    IF InList(r, rxns)
    THEN [kind |-> "dead_end",
          mets |-> {m \in MetsOf(mdl, r) : InList(m, mets)}]
    ELSE IF InList(r, fwd)
    THEN [kind |-> "only when going backwards", mets |-> {}]
    ELSE IF InList(r, rev)
    THEN [kind |-> "only when going forwards", mets |-> {}]
    ELSE [kind |-> "ok", mets |-> {}]

\* dead_end_test, lines 46-75
DeFinish ==
    /\ prog = "dead_end_test"
    /\ de_pc = "loop" /\ stack = <<>> /\ outer_left = {}
    /\ test_results' = [r \in Rxns |->
           DeadEndResult(model, dead_end_mets, dead_end_rxns, fwd_only,
                         rev_only, r)]
    /\ out_ids' = add_reaction_equations(WithColumn(ReactionIds({}), Rxns))
    /\ de_pc' = "done"
    /\ UNCHANGED <<prog, given_model, model, aliased, outer_left, stack,
                   dead_end_mets, dead_end_rxns, fwd_only, rev_only, visited,
                   de_calls>>

NextDeadEnd ==
    \/ DeOuter /\ UNCHANGED <<fvaVars, attrib, model_in, dilVars, bldVars,
                              tblVars, out_ids>>
    \/ DeRecurse /\ UNCHANGED <<fvaVars, attrib, model_in, dilVars, bldVars,
                              tblVars, out_ids>>
    \/ DeReturn /\ UNCHANGED <<fvaVars, attrib, model_in, dilVars, bldVars,
                              tblVars, out_ids>>
    \/ DeFinish /\ UNCHANGED <<fvaVars, attrib, model_in, dilVars,
                              bldVars, tblVars>>

SpecDeadEnd == InitDeadEnd /\ [][NextDeadEnd]_vars

NextFva ==
    \/ FvaPrepare /\ UNCHANGED <<deVars, model_in, dilVars, bldVars,
                              tblVars, out_ids>>
    \/ PebbleStart /\ UNCHANGED <<deVars, model_in, dilVars, bldVars,
                              tblVars, out_ids>>
    \/ PebbleWhile /\ UNCHANGED <<deVars, model_in, dilVars, bldVars,
                              tblVars, out_ids>>
    \/ PebbleConsume /\ UNCHANGED <<deVars, model_in, dilVars, bldVars,
                              tblVars, out_ids>>
    \/ PebbleBatchEnd /\ UNCHANGED <<deVars, model_in, dilVars, bldVars,
                              tblVars, out_ids>>
    \/ PebbleClose /\ UNCHANGED <<deVars, model_in, dilVars, bldVars,
                              tblVars, out_ids>>
    \/ FvaRound /\ UNCHANGED <<deVars, model_in, dilVars, bldVars,
                              tblVars, out_ids>>

SpecFva == InitFva /\ [][NextFva]_vars

(***************************************************************************)
(* _dead_end_test_inner run to completion, as dilution_test uses it        *)
(***************************************************************************)
\* the calls that `frames` stand for, run until every one has returned
RECURSIVE RunInner(_, _)
RunInner(st, frames) ==
    IF frames = <<>> THEN st
    ELSE IF Head(frames).mets = {} THEN RunInner(st, Tail(frames))
    ELSE LET m == NextMet(Head(frames).mets)
             rest == <<[Head(frames) EXCEPT !.mets = @ \ {m}]>> \o Tail(frames)
         IN IF Head(frames).guarded /\ InList(m, st.dead_end_mets)
            THEN RunInner(st, rest)
            ELSE LET res == DeadEndInner(st, m)
                 IN RunInner(res.st,
                        IF res.loop = {} THEN rest
                        ELSE <<[mets |-> res.loop, guarded |-> res.guarded]>>
                             \o rest)

\* `for met in model.metabolites: _dead_end_test_inner(met, ...)`; `fresh`:
\* every call gets new fwd_only and rev_only lists (`list(), list()`)
RECURSIVE RunOuter(_, _, _)
RunOuter(st, left, fresh) ==
    IF left = {} THEN st
    ELSE LET met == NextMet(left)
             st0 == IF fresh
                    THEN [st EXCEPT !.fwd_only = <<>>, !.rev_only = <<>>]
                    ELSE st
         IN RunOuter(RunInner(st0, <<[mets |-> {met}, guarded |-> FALSE]>>),
                     left \ {met}, fresh)

\* dead_end_test(model): the dead_end_test column
DeadEndTable(mdl) ==
    LET st == RunOuter([model |-> mdl, dead_end_mets |-> <<>>,
                        dead_end_rxns |-> <<>>, fwd_only |-> <<>>,
                        rev_only |-> <<>>], Mets, FALSE)
    IN [r \in Rxns |->
           DeadEndResult(st.model, st.dead_end_mets, st.dead_end_rxns,
                         st.fwd_only, st.rev_only, r)]

(***************************************************************************)
(* dilution_test                                                           *)
(***************************************************************************)
\* the networks dilution_test is run on: a chain
\* -> m1 -> m2 -> ... in which every reaction has any of the bound kinds
ChainRow(r) == [m \in Mets |-> IF m = r THEN 1 ELSE IF m = r - 1 THEN -1 ELSE 0]

DilNetworks ==
    {MakeModel([r \in Rxns |-> [row |-> ChainRow(r), b |-> bs[r]]]) :
        bs \in [Rxns -> BoundKinds]}

VerboseInputs == {0, 1}

MaxAttemptsInputs == {1, 3}

\* what one task of the pool can end in.  A value is what
\* dilution_test_inner returns: in the script a table of the reactions of
\* the metabolite (na: every minimum or every maximum is NaN, az: the
\* reactions whose minimum and maximum are both 0), in the package max_dil
DilOutcome(kind, na, az, max_dil) ==
    [kind |-> kind, na |-> na, az |-> az, max_dil |-> max_dil]

DilValues(v, mdl, m) ==
    IF v = "script"
    THEN {DilOutcome("value", TRUE, {}, "none")}
         \cup {DilOutcome("value", FALSE, az, "none") :
                  az \in SUBSET RxnsOf(mdl, m)}
    ELSE {DilOutcome("value", d = "nan", {}, d) : d \in {"nan", "zero", "nonzero"}}

DilNextOutcomes(it, v, mdl) ==
    IF it.pos >= Len(it.items) THEN {DilOutcome("stop", FALSE, {}, "none")}
    ELSE DilValues(v, mdl, Producer(it))
         \cup {DilOutcome(f, FALSE, {}, "none") : f \in TaskFailures}

\* the except clause of dilution_test's inner loop that handles an outcome
DilHandler(kind) ==
    CASE kind = "value"   -> "store"
      [] kind = "stop"    -> "break"
      [] kind = "timeout" -> "redo"
      [] kind = "expired" -> "redo"
      [] OTHER            -> "propagate"

\* DilResult with `before` and `after` exchanged in its tests
DilResultSwapped(v, out, rows, rel, before) ==
    IF v = "script"
               THEN IF out.na THEN "error"
                    ELSE IF (\A r \in rows : before[r])
                            /\ ~(\A r \in rows : r \in out.az)
                         THEN "blocked by dilution"
                    ELSE IF (\A r \in rows : r \in out.az)
                            /\ ~(\A r \in rows : before[r])
                         THEN "unblocked by dilution"
                    ELSE IF (\A r \in rows : before[r])
                         THEN "always blocked"
                    ELSE "ok"
               ELSE IF out.max_dil = "nan" THEN "error"
                    ELSE IF out.max_dil # "zero" /\ (\A r \in rel : before[r])
                         THEN "blocked by dilution"
                    ELSE IF out.max_dil = "zero" /\ ~(\A r \in rel : before[r])
                         THEN "unblocked by dilution"
                    ELSE IF out.max_dil = "zero"
                         THEN "always blocked"
                    ELSE "ok"

\* the result of one metabolite: `rows` are the reactions of the table the
\* task returned, `rel` the reactions of the metabolite the result is for
DilResult(v, out, rows, rel, before) ==
    IF v = "script"
    THEN LET both_zero_before == \A r \in rows : before[r]
             both_zero_after  == \A r \in rows : r \in out.az
         IN IF out.na THEN "error"
            ELSE IF both_zero_after /\ ~both_zero_before
                 THEN "blocked by dilution"
            ELSE IF both_zero_before /\ ~both_zero_after
                 THEN "unblocked by dilution"
            ELSE IF both_zero_before /\ both_zero_after
                 THEN "always blocked"
            ELSE "ok"
    ELSE LET blocked_before == \A r \in rel : before[r]
         IN IF out.max_dil = "nan" THEN "error"
            ELSE IF out.max_dil = "zero" /\ ~blocked_before
                 THEN "blocked by dilution"
            ELSE IF out.max_dil # "zero" /\ blocked_before
                 THEN "unblocked by dilution"
            ELSE IF out.max_dil = "zero" /\ blocked_before
                 THEN "always blocked"
            ELSE "ok"

\* whether one reaction of the metabolite counts as always blocked
DilAlwaysBlocked(v, out, rows, before, r) ==
    IF v = "script"
    THEN r \in rows => (before[r] /\ r \in out.az /\ ~out.na)
    ELSE before[r]

\* DilLabel without the test of the label the reaction already has
DilLabelOverwrites(v, out, rows, rel, before, labels) ==
    [r \in Rxns |->
        IF r \in rel
        THEN IF DilAlwaysBlocked(v, out, rows, before, r)
             THEN "always blocked"
             ELSE DilResult(v, out, rows, rel, before)
        ELSE labels[r]]

\* rxn_dict after the result of one metabolite was added
DilLabel(v, out, rows, rel, before, labels) ==
    [r \in Rxns |->
        IF r \in rel /\ labels[r] # "blocked by dilution"
        THEN IF DilAlwaysBlocked(v, out, rows, before, r)
             THEN "always blocked"
             ELSE DilResult(v, out, rows, rel, before)
        ELSE labels[r]]

\* dilution_test, lines 139-213: the state when the loop over the batches
\* begins.  fva_before is whatever FVA found for the model.
InitDil ==
    /\ prog = "dilution_test"
    /\ IdleFva
    /\ IdleBuild
    /\ IdleTbl
    /\ attrib = {}
    /\ given_model \in DilNetworks
    /\ model_in = given_model
    /\ model = given_model
    /\ aliased = FALSE
    /\ de_pc = "idle"
    /\ outer_left = {}
    /\ stack = <<>>
    /\ dead_end_mets = <<>>
    /\ dead_end_rxns = <<>>
    /\ fwd_only = <<>>
    /\ rev_only = <<>>
    /\ test_results = NoResults
    /\ visited = <<>>
    /\ de_calls = 0
    /\ variant \in {"script", "package"}
    /\ verbose \in VerboseInputs
    /\ max_attempts \in MaxAttemptsInputs
    /\ dead_end_results = DeadEndTable(given_model)
    /\ before_zero \in [Rxns -> BOOLEAN]
    /\ met_dict = [m \in Mets |-> ""]
    /\ rxn_dict = [r \in Rxns |-> ""]
    /\ mets_to_test = SetToList(Mets)
    /\ dil_iterator = [items |-> SetToList(Mets), pos |-> 0]
    /\ dil_attempts = 0
    /\ dil_to_redo = <<>>
    /\ dil_i = 0
    /\ dil_exc = "none"
    /\ blocked_mets = <<>>
    /\ blocked_rxns = <<>>
    /\ dil_out = NoDilResults
    /\ dil_pc = "while"

\* dilution_test, `while mets_to_test:` and the first lines of its body
DilWhile ==
    /\ prog = "dilution_test" /\ dil_pc = "while"
    /\ IF mets_to_test = <<>>
       THEN /\ dil_pc' = "post"
            /\ UNCHANGED <<dil_attempts, dil_to_redo, dil_i>>
       ELSE /\ dil_attempts' = dil_attempts + 1
            /\ dil_to_redo' = <<>>
            /\ dil_i' = 0
            /\ dil_pc' = "consume"
    /\ UNCHANGED <<variant, verbose, max_attempts, dead_end_results,
                   before_zero, mets_to_test, dil_iterator, met_dict,
                   rxn_dict, dil_exc, blocked_mets, blocked_rxns, dil_out,
                   attrib, given_model>>

\* dilution_test: `finally: i += 1`
DilFinally(idx, h) == idx + 1

\* dilution_test: one pass of the inner `while True`
DilConsume ==
    /\ prog = "dilution_test" /\ dil_pc = "consume"
    /\ \E out \in DilNextOutcomes(dil_iterator, variant, given_model) :
         LET h == DilHandler(out.kind)
             inRange == dil_i + 1 <= Len(mets_to_test)
             met == mets_to_test[dil_i + 1]
             rows == RxnsOf(given_model, Producer(dil_iterator))
             rel == RxnsOf(given_model, met)
         IN
         /\ dil_iterator' = IF out.kind = "stop" THEN dil_iterator
                            ELSE [dil_iterator EXCEPT !.pos = @ + 1]
         /\ attrib' = IF out.kind # "stop" /\ inRange /\ h # "propagate"
                      THEN attrib \cup {[prog |-> "dilution_test",
                                         producer |-> Producer(dil_iterator),
                                         recorded |-> met]}
                      ELSE attrib
         /\ dil_i' = DilFinally(dil_i, h)
         /\ CASE h = "store" /\ inRange ->
                   /\ met_dict' = [met_dict EXCEPT ![met] =
                         DilResult(variant, out, rows, rel, before_zero)]
                   /\ rxn_dict' = DilLabel(variant, out, rows, rel,
                                           before_zero, rxn_dict)
                   /\ UNCHANGED <<dil_to_redo, dil_exc, dil_pc>>
              [] h = "store" /\ ~inRange ->
                   \* IndexError, caught with StopIteration: break
                   /\ dil_pc' = "checks"
                   /\ UNCHANGED <<met_dict, rxn_dict, dil_to_redo, dil_exc>>
              [] h = "break" ->
                   /\ dil_pc' = "checks"
                   /\ UNCHANGED <<met_dict, rxn_dict, dil_to_redo, dil_exc>>
              [] h = "redo" /\ inRange ->
                   /\ dil_to_redo' = Append(dil_to_redo, met)
                   /\ UNCHANGED <<met_dict, rxn_dict, dil_exc, dil_pc>>
              [] h = "redo" /\ ~inRange ->
                   \* IndexError raised inside the except clause: not caught
                   /\ dil_exc' = "IndexError"
                   /\ dil_pc' = "raised"
                   /\ UNCHANGED <<met_dict, rxn_dict, dil_to_redo>>
              [] OTHER ->
                   \* no except clause matches: the exception leaves
                   \* dilution_test
                   /\ dil_exc' = "Exception"
                   /\ dil_pc' = "raised"
                   /\ UNCHANGED <<met_dict, rxn_dict, dil_to_redo>>
    /\ UNCHANGED <<variant, verbose, max_attempts, dead_end_results,
                   before_zero, mets_to_test, dil_attempts, blocked_mets,
                   blocked_rxns, dil_out, given_model>>

\* dilution_test: `rxn_dict[r]` with r a Reaction, for the first metabolite
\* of met_dict that has a reaction: rxn_dict has the reaction ids as keys
CeilingKeyError(mdl) == \E m \in Mets : RxnsOf(mdl, m) # {}

\* dilution_test: the checks after a batch (script lines 303-339)
DilChecks ==
    /\ prog = "dilution_test" /\ dil_pc = "checks"
    /\ IF \A m \in Mets : met_dict[m] = "error"
       THEN /\ dil_exc' = "ValueError" /\ dil_pc' = "raised"
            /\ UNCHANGED <<mets_to_test, met_dict>>
       ELSE IF \A m \in Mets : met_dict[m] = ""
       THEN /\ dil_exc' = "ValueError" /\ dil_pc' = "raised"
            /\ UNCHANGED <<mets_to_test, met_dict>>
       ELSE IF dil_to_redo # <<>>
       THEN /\ mets_to_test' = dil_to_redo
            /\ IF verbose > 0 /\ dil_attempts >= max_attempts
               THEN IF CeilingKeyError(given_model)
                    THEN /\ dil_exc' = "KeyError" /\ dil_pc' = "raised"
                         /\ UNCHANGED met_dict
                    ELSE /\ met_dict' = [m \in Mets |->
                               IF met_dict[m] = "" THEN "error"
                               ELSE met_dict[m]]
                         /\ dil_pc' = "post"
                         /\ UNCHANGED dil_exc
               ELSE /\ dil_pc' = IF dil_attempts >= max_attempts
                                 THEN "post" ELSE "while"
                    /\ UNCHANGED <<met_dict, dil_exc>>
       ELSE /\ dil_pc' = "post"
            /\ UNCHANGED <<mets_to_test, met_dict, dil_exc>>
    /\ UNCHANGED <<variant, verbose, max_attempts, dead_end_results,
                   before_zero, dil_to_redo, dil_attempts, dil_i,
                   dil_iterator, rxn_dict, blocked_mets, blocked_rxns,
                   dil_out, attrib, given_model>>

\* dilution_test: the model whose metabolites and reactions the
\* post-classification step passes to _dead_end_test_inner: the script takes
\* them from given_model, the package from given_model.copy()
PostModelAlwaysGiven(v) == TRUE

PostModelIsGiven(v) == v = "script"

\* dilution_test: pool.close() to the loop over _dead_end_test_inner
\* (script lines 340-357, package lines 336-358)
DilPost ==
    /\ prog = "dilution_test" /\ dil_pc = "post"
    /\ LET st == [model |-> given_model,
                  dead_end_mets |-> SetToList({m \in Mets :
                      met_dict[m] = "blocked by dilution"}),
                  dead_end_rxns |-> SetToList({r \in Rxns :
                      rxn_dict[r] = "blocked by dilution"}),
                  fwd_only |-> <<>>, rev_only |-> <<>>]
           post == RunOuter(st, Mets, TRUE)
       IN /\ blocked_mets' = post.dead_end_mets
          /\ blocked_rxns' = post.dead_end_rxns
          /\ given_model' = IF PostModelIsGiven(variant) THEN post.model
                            ELSE given_model
    /\ dil_pc' = "out"
    /\ UNCHANGED <<variant, verbose, max_attempts, dead_end_results,
                   before_zero, mets_to_test, dil_to_redo, dil_attempts,
                   dil_i, dil_iterator, met_dict, rxn_dict, dil_exc, dil_out,
                   attrib>>

\* the ids of the leakage reactions add_leakage_reactions added to the
\* working copy: which pairs of metabolites get one depends on their names
LeakageIds == {NumRxns + 1, NumRxns + 2}

\* dilution_test: the table returned (script lines 358-405).  The script
\* lists the reactions of the working copy, the package those of given_model
DilFinish ==
    /\ prog = "dilution_test" /\ dil_pc = "out"
    /\ LET dead_ends == UNION {dead_end_results[r].mets :
                                 r \in {q \in Rxns :
                                    dead_end_results[q].kind = "dead_end"}}
           mets == {m \in Mets : InList(m, blocked_mets) /\ m \notin dead_ends}
           rxns == {r \in Rxns : /\ InList(r, blocked_rxns)
                                 /\ MetsOf(given_model, r) \cap dead_ends = {}}
       IN dil_out' = [r \in Rxns |->
              IF r \in rxns
              THEN [kind |-> "blocked", mets |-> MetsOf(given_model, r) \cap mets]
              ELSE [kind |-> rxn_dict[r], mets |-> {}]]
    /\ \E leakage \in SUBSET LeakageIds :
          out_ids' = Merge(WithColumn(ReactionIds(IF variant = "script"
                                                  THEN leakage ELSE {}), Rxns),
                           ReactionIds({}))
    /\ dil_pc' = "done"
    /\ UNCHANGED <<variant, verbose, max_attempts, dead_end_results,
                   before_zero, mets_to_test, dil_to_redo, dil_attempts,
                   dil_i, dil_iterator, met_dict, rxn_dict, dil_exc,
                   blocked_mets, blocked_rxns, attrib, given_model>>

deRest == <<model, aliased, de_pc, outer_left, stack, dead_end_mets,
            dead_end_rxns, fwd_only, rev_only, test_results, visited,
            de_calls>>

NextDil ==
    \/ DilWhile /\ UNCHANGED <<prog, fvaVars, deRest, model_in, bldVars,
                              tblVars, out_ids>>
    \/ DilConsume /\ UNCHANGED <<prog, fvaVars, deRest, model_in, bldVars,
                              tblVars, out_ids>>
    \/ DilChecks /\ UNCHANGED <<prog, fvaVars, deRest, model_in, bldVars,
                              tblVars, out_ids>>
    \/ DilPost /\ UNCHANGED <<prog, fvaVars, deRest, model_in, bldVars,
                              tblVars, out_ids>>
    \/ DilFinish /\ UNCHANGED <<prog, fvaVars, deRest, model_in,
                              bldVars, tblVars>>

SpecDil == InitDil /\ [][NextDil]_vars

\* fva and dilution_test, the two consumers of a pool's result stream
SpecPool == (InitFva \/ InitDil) /\ [][NextFva \/ NextDil]_vars

(***************************************************************************)
(* The dilution constraint builder (macaw/macaw_dilution.py).  Its models  *)
(* carry, besides the network, the names of the metabolites and the        *)
(* dilution reactions, leakage reactions and dilution constraints added:   *)
(*   name[m]  m.name: a base name and the compartment its suffix names     *)
(*            (0: the name has no compartment suffix)                      *)
(*   dil      the reactions `<met>_dilution`                               *)
(*   leak     the reactions `<m1>--<m2>_leakage`                           *)
(*   cons     the constraints `<met>_dilution_constraint` of the solver:   *)
(*            the reactions whose forward and reverse fluxes are summed,   *)
(*            and the dilution reactions whose flux, times dil_factor, is  *)
(*            subtracted                                                   *)
(***************************************************************************)
\* m.compartment: every metabolite is in a compartment of its own
compartment(m) == m

\* the names a metabolite can have: the name of one species with or
\* without the suffix of its compartment (`A`, `A [c]`), or the name of
\* another species
NamesOf(m) == {[base |-> "A", suffix |-> s] : s \in {0, compartment(m)}}
              \cup {[base |-> "B", suffix |-> 0]}

\* add_leakage_reactions, lines 371-372: the name without a trailing
\* compartment
StripCompartment(name, comp) ==
    IF name.suffix = comp THEN [name EXCEPT !.suffix = 0] ELSE name

\* the bounds a caller's reactions have here: the chain with forward or
\* reversible reactions
BuildNetworks == {n \in DilNetworks : \A r \in Rxns : n.ub[r] > 0}

BuildModel(net, names, dils) ==
    [S |-> net.S, lb |-> net.lb, ub |-> net.ub, name |-> names,
     dil |-> dils, leak |-> {}, cons |-> <<>>]

\* make_dilution_reaction
make_dilution_reaction(met_id) ==
    [met |-> met_id, coef |-> -1, lb |-> 0, ub |-> "inf"]

\* add_dilution_reactions, lines 277-288: the model has a reaction whose id
\* ends in `_dilution` and that has one metabolite
HasDilutionReactions(mdl) == mdl.dil # {}

\* add_dilution_reactions
add_dilution_reactions(mdl, mets) ==
    IF HasDilutionReactions(mdl) THEN mdl
    ELSE [mdl EXCEPT !.dil = {make_dilution_reaction(m) : m \in mets}]

\* add_leakage_reactions, lines 367-374: the stripped names more than one
\* metabolite has
SharedNames(mdl) ==
    {n \in {StripCompartment(mdl.name[m], compartment(m)) : m \in Mets} :
        Cardinality({m \in Mets :
            StripCompartment(mdl.name[m], compartment(m)) = n}) > 1}

\* add_leakage_reactions, line 377: the metabolites paired for a shared name
NamedLike(mdl, met_name) == {m \in Mets : mdl.name[m] = met_name}

\* add_leakage_reactions, lines 376-394
LeakageReactions(mdl, bound) ==
    {[m1 |-> p[1], m2 |-> p[2], lb |-> 0 - bound, ub |-> bound] :
        p \in {q \in Mets \X Mets :
                 /\ q[1] < q[2]
                 /\ \E n \in SharedNames(mdl) :
                       q[1] \in NamedLike(mdl, n) /\ q[2] \in NamedLike(mdl, n)
                 /\ RxnsOf(mdl, q[1]) \cap RxnsOf(mdl, q[2]) # {}}}

\* add_leakage_reactions
add_leakage_reactions(mdl, bound) ==
    IF mdl.leak # {} THEN mdl
    ELSE IF bound = 0 THEN mdl
    ELSE [mdl EXCEPT !.leak = LeakageReactions(mdl, bound)]

\* make_dilution_constraint: met_obj.reactions split by `'dilution' in r.id`
make_dilution_constraint(mdl, met_id, factor) ==
    [name |-> met_id,
     plus_rxns |-> RxnsOf(mdl, met_id),
     plus_leak |-> {l \in mdl.leak : l.m1 = met_id \/ l.m2 = met_id},
     minus |-> {d.met : d \in {e \in mdl.dil : e.met = met_id}},
     factor |-> factor]

\* constrain_reversible_rxns: the minimum and maximum FVA can find for a
\* reaction with the bounds lb, ub
FvaRows(lb, ub) ==
    {row \in {<<0, 0>>, <<0, 1000>>, <<-1000, 0>>, <<-1000, 1000>>} :
        lb <= row[1] /\ row[2] <= ub}

\* constrain_reversible_rxns, lines 191-238: one row of the FVA results
ConstrainOne(mdl, r, row) ==
    IF row[1] = 0 /\ row[2] = 0
    THEN [mdl EXCEPT !.lb[r] = 0, !.ub[r] = 0]
    ELSE IF row[1] >= 0 /\ row[2] > 0
    THEN [mdl EXCEPT !.lb[r] = 0]
    ELSE IF row[1] < 0 /\ row[2] <= 0
    THEN [mdl EXCEPT !.S[r] = [m \in Mets |-> 0 - mdl.S[r][m]], !.lb[r] = 0]
    ELSE [mdl EXCEPT !.lb[r] = row[1], !.ub[r] = row[2]]

\* constrain_reversible_rxns: the reversible reactions that are not boundary
\* reactions get the bounds FVA found
RECURSIVE ConstrainAll(_, _, _)
ConstrainAll(mdl, rows, left) ==
    IF left = {} THEN mdl
    ELSE LET r == CHOOSE q \in left : \A z \in left : q <= z
         IN ConstrainAll(ConstrainOne(mdl, r, rows[r]), rows, left \ {r})

RevRxns(mdl) == {r \in Rxns : Reversibility(mdl, r) /\ ~Boundary(mdl, r)}

LeakFluxInputs == {0, 1}

\* the mets_to_dilute arguments: None, or the id of one metabolite
MetsArgInputs == {{}} \cup {{m} : m \in Mets}

DilFactorInputs == {0, 1000}

\* the models a caller passes to add_dilution_constraints: without dilution
\* reactions, or with the dilution reaction of one metabolite
BuildInputs ==
    {BuildModel(net, names, dils) :
        net \in BuildNetworks,
        names \in {f \in [Mets -> UNION {NamesOf(m) : m \in Mets}] :
                      \A m \in Mets : f[m] \in NamesOf(m)},
        dils \in {{}} \cup {{make_dilution_reaction(m)} : m \in Mets}}

InitBuild ==
    /\ prog = "add_dilution_constraints"
    /\ IdleFva
    /\ IdleDil
    /\ IdleTbl
    /\ attrib = {}
    /\ given_model \in BuildInputs
    /\ model_in = given_model
    /\ model = given_model
    /\ aliased = FALSE
    /\ de_pc = "idle"
    /\ outer_left = {}
    /\ stack = <<>>
    /\ dead_end_mets = <<>>
    /\ dead_end_rxns = <<>>
    /\ fwd_only = <<>>
    /\ rev_only = <<>>
    /\ test_results = NoResults
    /\ visited = <<>>
    /\ de_calls = 0
    /\ b_pc = "start"
    /\ b_calls = 1
    /\ mets_arg \in MetsArgInputs
    /\ mets_to_dilute = mets_arg
    /\ leak_flux \in LeakFluxInputs
    /\ dil_factor \in DilFactorInputs
    /\ preprocess \in BOOLEAN
    /\ b_exc = "none"

\* add_dilution_constraints, lines 52-66
BuildStart ==
    /\ prog = "add_dilution_constraints" /\ b_pc = "start"
    /\ IF dil_factor <= 0
       THEN /\ model' = given_model
            /\ b_pc' = "done"
       ELSE /\ IF preprocess
               THEN \E rows \in [RevRxns(given_model) ->
                                    FvaRows(-1000, 1000)] :
                       /\ \A r \in RevRxns(given_model) :
                             rows[r] \in FvaRows(given_model.lb[r],
                                                 given_model.ub[r])
                       /\ model' = ConstrainAll(given_model, rows,
                                                RevRxns(given_model))
               ELSE model' = given_model
            /\ b_pc' = "reactions"
    /\ mets_to_dilute' = mets_arg
    /\ UNCHANGED <<prog, given_model, model_in, b_calls, mets_arg, leak_flux,
                   dil_factor, preprocess, b_exc>>

\* add_dilution_constraints, lines 67-104
BuildReactions ==
    /\ prog = "add_dilution_constraints" /\ b_pc = "reactions"
    /\ LET mets == IF mets_to_dilute = {} THEN Mets ELSE mets_to_dilute
       IN /\ mets_to_dilute' = mets
          /\ model' = add_dilution_reactions(model, mets)
    /\ b_pc' = "leakage"
    /\ UNCHANGED <<prog, given_model, model_in, b_calls, mets_arg, leak_flux,
                   dil_factor, preprocess, b_exc>>

\* add_dilution_constraints, line 105
BuildLeakage ==
    /\ prog = "add_dilution_constraints" /\ b_pc = "leakage"
    /\ model' = add_leakage_reactions(model, leak_flux)
    /\ b_pc' = "constraints"
    /\ UNCHANGED <<prog, given_model, model_in, b_calls, mets_arg,
                   mets_to_dilute, leak_flux, dil_factor, preprocess, b_exc>>

\* the constraints add_cons_vars is given, in the order of mets_to_dilute
ConstraintsFor(mdl, mets, factor) ==
    LET lst == SetToList(mets)
    IN [k \in 1..Len(lst) |-> make_dilution_constraint(mdl, lst[k], factor)]

\* add_dilution_constraints, lines 114-121.  The solver is not part of this
\* repository: given a constraint whose name it already holds, it either
\* raises or holds two constraints of that name.
BuildConstraints ==
    /\ prog = "add_dilution_constraints" /\ b_pc = "constraints"
    /\ LET dil_consts == ConstraintsFor(model, mets_to_dilute, dil_factor)
           clash == \E j \in 1..Len(model.cons), k \in 1..Len(dil_consts) :
                       model.cons[j].name = dil_consts[k].name
       IN \/ /\ model' = [model EXCEPT !.cons = @ \o dil_consts]
             /\ b_pc' = "done"
             /\ UNCHANGED b_exc
          \/ /\ clash
             /\ b_exc' = "Exception"
             /\ b_pc' = "raised"
             /\ UNCHANGED model
    /\ UNCHANGED <<prog, given_model, model_in, b_calls, mets_arg,
                   mets_to_dilute, leak_flux, dil_factor, preprocess>>

\* the caller passes the model returned to add_dilution_constraints again,
\* with the same arguments
BuildAgain ==
    /\ prog = "add_dilution_constraints" /\ b_pc = "done" /\ b_calls = 1
    /\ given_model' = model
    /\ model_in' = model
    /\ b_calls' = 2
    /\ b_pc' = "start"
    /\ UNCHANGED <<prog, model, mets_arg, mets_to_dilute, leak_flux,
                   dil_factor, preprocess, b_exc>>

deIdle == <<aliased, de_pc, outer_left, stack, dead_end_mets, dead_end_rxns,
            fwd_only, rev_only, test_results, visited, de_calls>>

NextBuild ==
    \/ BuildStart /\ UNCHANGED <<fvaVars, attrib, deIdle, dilVars,
                              tblVars, out_ids>>
    \/ BuildReactions /\ UNCHANGED <<fvaVars, attrib, deIdle, dilVars,
                              tblVars, out_ids>>
    \/ BuildLeakage /\ UNCHANGED <<fvaVars, attrib, deIdle, dilVars,
                              tblVars, out_ids>>
    \/ BuildConstraints /\ UNCHANGED <<fvaVars, attrib, deIdle, dilVars,
                              tblVars, out_ids>>
    \/ BuildAgain /\ UNCHANGED <<fvaVars, attrib, deIdle, dilVars,
                              tblVars, out_ids>>

SpecBuild == InitBuild /\ [][NextBuild]_vars

(***************************************************************************)
(* flip_reaction (macaw/utils.py), statement by statement, on one Reaction *)
(* of any coefficients and bounds.  A Reaction's bounds are set through    *)
(* the setters of cobra 0.29.0 (the version setup.py requires), which      *)
(* refuse a lower bound above the upper bound of the moment.               *)
(***************************************************************************)
\* the coefficients and bounds of the reactions flip_reaction is given
FlipCoefs == {-2, -1, 1, 2}

FlipBounds == {-1000, -10, 0, 10, 1000}

FlipReactions ==
    {rxn \in [S : [Mets -> FlipCoefs \cup {0}], lb : FlipBounds, ub : FlipBounds] :
        /\ rxn.lb <= rxn.ub
        /\ \E m \in Mets : rxn.S[m] # 0}

\* reaction.subtract_metabolites(d): each coefficient minus d's; a
\* metabolite whose coefficient becomes 0 leaves the reaction
subtract_metabolites(rxn, d) ==
    [rxn EXCEPT !.S = [m \in Mets |-> rxn.S[m] - d[m]]]

\* cobra's Reaction._check_bounds, called by both setters
BoundsRefused(lb, ub) == lb > ub

\* the body of flip_reaction, lines 31-38: the reaction it leaves and the
\* exception it raises
FlipCall(rxn) ==
    LET orig_ub == rxn.ub
        orig_lb == rxn.lb
        new_met_dict == [m \in Mets |-> 2 * rxn.S[m]]
        r1 == subtract_metabolites(rxn, new_met_dict)
    IN IF BoundsRefused(-1 * orig_ub, r1.ub)
       THEN [reaction |-> r1, exc |-> "ValueError"]
       ELSE LET r2 == [r1 EXCEPT !.lb = -1 * orig_ub]
            IN IF BoundsRefused(r2.lb, -1 * orig_lb)
               THEN [reaction |-> r2, exc |-> "ValueError"]
               ELSE [reaction |-> [r2 EXCEPT !.ub = -1 * orig_lb],
                     exc |-> "none"]

InitFlip ==
    /\ prog = "flip_reaction"
    /\ IdleFva
    /\ IdleDe
    /\ IdleDil
    /\ IdleBuild
    /\ IdleExt
    /\ attrib = {}
    /\ model_in = given_model
    /\ reaction \in FlipReactions
    /\ reaction_in = reaction
    /\ flips = 0
    /\ flip_exc = "none"
    /\ IdleDup
    /\ IdleDiph
    /\ IdleLoop
    /\ out_ids = <<>>

\* one call of flip_reaction on the reaction; a caller flips it twice
Flip ==
    /\ prog = "flip_reaction" /\ flips < 2 /\ flip_exc = "none"
    /\ reaction' = FlipCall(reaction).reaction
    /\ flip_exc' = FlipCall(reaction).exc
    /\ flips' = flips + 1
    /\ UNCHANGED <<prog, reaction_in>>

NextFlip ==
    Flip /\ UNCHANGED <<fvaVars, attrib, deVars, model_in, dilVars, bldVars,
                        dupVars, diphVars, loopVars, extVars, out_ids>>

SpecFlip == InitFlip /\ [][NextFlip]_vars

(***************************************************************************)
(* duplicate_test (macaw_structural.py), called without redox pairs: the   *)
(* loop over the pairs of reactions and the table.  The code never reads   *)
(* the genes of a reaction, so the networks carry none.                    *)
(***************************************************************************)
\* it.combinations(model.reactions, 2), in the order it yields them
Combinations2 ==
    LET ps == {p \in Rxns \X Rxns : p[1] < p[2]}
        Code(p) == p[1] * (NumRxns + 1) + p[2]
        RECURSIVE List(_)
        List(set) ==
            IF set = {} THEN <<>>
            ELSE LET x == CHOOSE y \in set : \A z \in set : Code(y) <= Code(z)
                 IN <<x>> \o List(set \ {x})
    IN List(ps)

\* the three tests of a pair that has the same set of metabolites
same_stoich(mdl, r1, r2) ==
    \A met \in MetsOf(mdl, r1) : mdl.S[r1][met] = mdl.S[r2][met]

opp_dir(mdl, r1, r2) ==
    \A m \in Reactants(mdl, r1) : m \in Products(mdl, r2)

same_rev(mdl, r1, r2) == Reversibility(mdl, r1) = Reversibility(mdl, r2)

\* the condition under which a pair is added to exact_dupes
IsExactDupe(mdl, r1, r2) ==
    same_stoich(mdl, r1, r2) /\ ~opp_dir(mdl, r1, r2) /\ same_rev(mdl, r1, r2)

\* d[r1].append(r2); d[r2].append(r1)
AppendBoth(d, r1, r2) ==
    [d EXCEPT ![r1] = Append(@, r2), ![r2] = Append(@, r1)]

\* model.metabolites, as ids
ModelMets(mdl) == DOMAIN mdl.S[CHOOSE r \in Rxns : TRUE]

\* duplicate_test, line 229: the redox comparison is given up (and said so)
RedoxSkipped(pairs, protons, v) ==
    ((Len(pairs) < 2) \/ (protons = <<>>)) /\ (v > 0)

\* the ids in redox_pairs and proton_ids
RedoxIds(pairs, protons) ==
    {pairs[k][j] : k \in 1..Len(pairs), j \in 1..2}
        \cup {protons[k] : k \in 1..Len(protons)}

\* duplicate_test, lines 229-277: redox_mets, or the ValueError raised for
\* an id that model.metabolites.get_by_id does not find
RedoxArgs(mdl, pairs, protons, v) ==
    IF RedoxSkipped(pairs, protons, v)
    THEN [exc |-> "none", redox_mets |-> {}]
    ELSE IF \E id \in RedoxIds(pairs, protons) : id \notin ModelMets(mdl)
    THEN [exc |-> "ValueError", redox_mets |-> {}]
    ELSE [exc |-> "none", redox_mets |-> RedoxIds(pairs, protons)]

\* duplicate_test, lines 301-320: the test of a pair with different sets of
\* metabolites
IsRedoxDupe(mdl, pairs, rmets, r1, r2) ==
    LET both_redox ==
            /\ \E k \in 1..Len(pairs) : /\ pairs[k][1] \in MetsOf(mdl, r1)
                                        /\ pairs[k][2] \in MetsOf(mdl, r1)
            /\ \E k \in 1..Len(pairs) : /\ pairs[k][1] \in MetsOf(mdl, r2)
                                        /\ pairs[k][2] \in MetsOf(mdl, r2)
        mets_1 == MetsOf(mdl, r1) \ rmets
        mets_2 == MetsOf(mdl, r2) \ rmets
    IN /\ rmets # {}
       /\ both_redox /\ (mets_1 = mets_2) /\ mets_1 # {} /\ mets_2 # {}

InitDup ==
    /\ prog = "duplicate_test"
    /\ IdleFva
    /\ IdleDil
    /\ IdleBuild
    /\ IdleFlip
    /\ IdleDiph
    /\ IdleExt
    /\ attrib = {}
    /\ given_model \in Networks
    /\ model_in = given_model
    /\ IdleDeRest
    /\ IdleLoop
    /\ dup_pc = "start"
    /\ dup_pairs = Combinations2
    /\ exact_dupes = NoDupes
    /\ direction_dupes = NoDupes
    /\ stoich_dupes = NoDupes
    /\ redox_pairs = <<>>
    /\ proton_ids = <<>>
    /\ dup_verbose \in VerboseInputs
    /\ redox_mets = {}
    /\ redox_dupes = NoDupes
    /\ dup_exc = "none"
    /\ out_ids = <<>>

\* the metabolites of the models duplicate_test is given redox pairs for: a
\* substrate and another one, two redox carriers in both forms, a proton
DupMets == {"x", "y", "nad", "nadh", "fad", "fadh2", "h"}

\* a reaction written as the coefficients of the metabolites it has
DupRow(coefs) ==
    [m \in DupMets |-> IF m \in DOMAIN coefs THEN coefs[m] ELSE 0]

\* the reactions of those models: an oxidation by either carrier, the same
\* with the substrate on the other side, with another coefficient, scaled,
\* reversed, of another substrate, with a proton, the two carriers reacting
\* with each other, and two reactions without a carrier
DupRowList ==
    <<DupRow([x |-> -1, nad |-> -1, nadh |-> 1]),
      DupRow([x |-> -1, fad |-> -1, fadh2 |-> 1]),
      DupRow([x |-> 1, fad |-> -1, fadh2 |-> 1]),
      DupRow([x |-> -2, nad |-> -1, nadh |-> 1]),
      DupRow([x |-> -2, nad |-> -2, nadh |-> 2]),
      DupRow([x |-> 1, nad |-> 1, nadh |-> -1]),
      DupRow([y |-> -1, fad |-> -1, fadh2 |-> 1]),
      DupRow([x |-> -1, nad |-> -1, h |-> -1, nadh |-> 1]),
      DupRow([nad |-> -1, fadh2 |-> -1, nadh |-> 1, fad |-> 1]),
      DupRow([x |-> -1, h |-> -1]),
      DupRow([x |-> -1, y |-> 1])>>

\* each of them irreversible and reversible
DupTemplates ==
    [k \in 1..(2 * Len(DupRowList)) |->
        [row |-> DupRowList[(k + 1) \div 2],
         b |-> IF k % 2 = 1 THEN <<0, 1000>> ELSE <<-1000, 1000>>]]

\* the models: any reactions of DupTemplates, listed in one order only (the
\* tests of a pair give the same result for (r1, r2) and (r2, r1))
DupNetworks ==
    {MakeModel([r \in Rxns |-> DupTemplates[f[r]]]) :
        f \in {g \in [Rxns -> DOMAIN DupTemplates] :
                  \A r, q \in Rxns : r <= q => g[r] <= g[q]}}

\* the redox_pairs arguments: none, one pair, two pairs, and two pairs with
\* an id that is not a metabolite of the model
RedoxPairInputs ==
    {<<>>,
     <<<<"nad", "nadh">>>>,
     <<<<"nad", "nadh">>, <<"fad", "fadh2">>>>,
     <<<<"nad", "nadh">>, <<"fad", "fadh">>>>}

\* the proton_ids arguments
ProtonInputs == {<<>>, <<"h">>}

\* duplicate_test called with redox_pairs and proton_ids
InitDupArgs ==
    /\ prog = "duplicate_test"
    /\ IdleFva
    /\ IdleDil
    /\ IdleBuild
    /\ IdleFlip
    /\ IdleDiph
    /\ IdleExt
    /\ attrib = {}
    /\ given_model \in DupNetworks
    /\ model_in = given_model
    /\ IdleDeRest
    /\ IdleLoop
    /\ dup_pc = "start"
    /\ dup_pairs = Combinations2
    /\ exact_dupes = NoDupes
    /\ direction_dupes = NoDupes
    /\ stoich_dupes = NoDupes
    /\ redox_pairs \in RedoxPairInputs
    /\ proton_ids \in ProtonInputs
    /\ dup_verbose \in VerboseInputs
    /\ redox_mets = {}
    /\ redox_dupes = NoDupes
    /\ dup_exc = "none"
    /\ out_ids = <<>>

\* duplicate_test, lines 201-277: the arguments are looked at
DupStart ==
    /\ prog = "duplicate_test" /\ dup_pc = "start"
    /\ LET res == RedoxArgs(given_model, redox_pairs, proton_ids, dup_verbose)
       IN /\ dup_exc' = res.exc
          /\ redox_mets' = res.redox_mets
          /\ dup_pc' = IF res.exc = "none" THEN "pairs" ELSE "raised"
    /\ UNCHANGED <<prog, given_model, dup_pairs, exact_dupes, stoich_dupes,
                   direction_dupes, redox_pairs, proton_ids, dup_verbose,
                   redox_dupes, out_ids>>

\* duplicate_test, lines 278-323: one pass of the loop over the pairs
DupPair ==
    /\ prog = "duplicate_test" /\ dup_pc = "pairs" /\ dup_pairs # <<>>
    /\ LET r1 == Head(dup_pairs)[1]
           r2 == Head(dup_pairs)[2]
       IN IF MetsOf(given_model, r1) = MetsOf(given_model, r2)
          THEN /\ exact_dupes' =
                    IF IsExactDupe(given_model, r1, r2)
                    THEN AppendBoth(exact_dupes, r1, r2) ELSE exact_dupes
               /\ stoich_dupes' =
                    IF ~same_stoich(given_model, r1, r2)
                    THEN AppendBoth(stoich_dupes, r1, r2) ELSE stoich_dupes
               /\ direction_dupes' =
                    IF opp_dir(given_model, r1, r2)
                       \/ ~same_rev(given_model, r1, r2)
                    THEN AppendBoth(direction_dupes, r1, r2)
                    ELSE direction_dupes
               /\ UNCHANGED redox_dupes
          ELSE /\ redox_dupes' =
                    IF IsRedoxDupe(given_model, redox_pairs, redox_mets,
                                   r1, r2)
                    THEN AppendBoth(redox_dupes, r1, r2) ELSE redox_dupes
               /\ UNCHANGED <<exact_dupes, stoich_dupes, direction_dupes>>
    /\ dup_pairs' = Tail(dup_pairs)
    /\ UNCHANGED <<prog, given_model, dup_pc, redox_pairs, proton_ids,
                   dup_verbose, redox_mets, dup_exc, out_ids>>

\* duplicate_test, lines 324-374: the table
DupFinish ==
    /\ prog = "duplicate_test" /\ dup_pc = "pairs" /\ dup_pairs = <<>>
    /\ out_ids' = add_reaction_equations(WithColumn(ReactionIds({}), Rxns))
    /\ dup_pc' = "done"
    /\ UNCHANGED <<prog, given_model, dup_pairs, exact_dupes, stoich_dupes,
                   direction_dupes, redox_pairs, proton_ids, dup_verbose,
                   redox_mets, redox_dupes, dup_exc>>

dupRest == <<fvaVars, attrib, deRest, model_in, dilVars, bldVars, flipVars,
             diphVars, loopVars, extVars>>

NextDup ==
    \/ DupStart /\ UNCHANGED dupRest
    \/ DupPair /\ UNCHANGED dupRest
    \/ DupFinish /\ UNCHANGED dupRest

SpecDup == InitDup /\ [][NextDup]_vars

SpecDupArgs == InitDupArgs /\ [][NextDup]_vars

(***************************************************************************)
(* diphosphate_test (macaw_structural.py)                                  *)
(***************************************************************************)
\* the (ppi_ids, pi_ids) arguments: a list may be empty, and a model may
\* have diphosphate in more than one compartment
DiphIdInputs == {<<{1}, {}>>, <<{1}, {3}>>, <<{1, 2}, {3}>>}

\* DiphResult with phosphate looked for among the reactants (when
\* diphosphate is a product) or the products (when it is a reactant) only
DiphResultOneSide(mdl, ppi, pis, r) ==
    LET ppi_prod == \E m \in Products(mdl, r) : m \in ppi
        ppi_reac == \E m \in Reactants(mdl, r) : m \in ppi
        pi_reac  == \E m \in Reactants(mdl, r) : m \in pis
        pi_prod  == \E m \in Products(mdl, r) : m \in pis
    IN IF ~Boundary(mdl, r) /\ Reversibility(mdl, r)
       THEN IF ppi_prod /\ ~ppi_reac /\ ~pi_reac THEN "should be irreversible"
            ELSE IF ppi_reac /\ ~ppi_prod /\ ~pi_prod
                 THEN "should be flipped and made irreversible"
            ELSE "ok"
       ELSE "ok"

\* the label of one reaction, lines 424-445
DiphResult(mdl, ppi, pis, r) ==
    LET pi_in_rxn == \E m \in MetsOf(mdl, r) : m \in pis
    IN IF ~Boundary(mdl, r) /\ ~pi_in_rxn /\ Reversibility(mdl, r)
       THEN LET ppi_prod == \E m \in Products(mdl, r) : m \in ppi
                ppi_reac == \E m \in Reactants(mdl, r) : m \in ppi
            IN IF ppi_prod /\ ~ppi_reac THEN "should be irreversible"
               ELSE IF ppi_reac /\ ~ppi_prod
                    THEN "should be flipped and made irreversible"
               ELSE "ok"
       ELSE "ok"

\* the first test of diphosphate_test, line 405
NoIdsGiven(ppi, pis, v) == (ppi = {} \/ pis = {}) /\ v > 0

InitDiph ==
    /\ prog = "diphosphate_test"
    /\ IdleFva
    /\ IdleDil
    /\ IdleBuild
    /\ IdleFlip
    /\ IdleDup
    /\ IdleExt
    /\ attrib = {}
    /\ given_model \in Networks
    /\ model_in = given_model
    /\ IdleDeRest
    /\ IdleLoop
    /\ diph_pc = "start"
    /\ \E ids \in DiphIdInputs : ppi_ids = ids[1] /\ pi_ids = ids[2]
    /\ diph_verbose \in VerboseInputs
    /\ diph_left = <<>>
    /\ result_dict = <<>>
    /\ out_ids = <<>>

\* diphosphate_test, lines 404-423: without the ids and with verbose > 0 a
\* table of N/A is returned; else the loop over model.reactions begins
DiphStart ==
    /\ prog = "diphosphate_test" /\ diph_pc = "start"
    /\ IF NoIdsGiven(ppi_ids, pi_ids, diph_verbose)
       THEN /\ result_dict' = [k \in 1..NumRxns |->
                   [reaction_id |-> ReactionIds({})[k],
                    diphosphate_test |-> "N/A"]]
            /\ out_ids' = WithColumn(ReactionIds({}), Rxns)
            /\ diph_pc' = "done"
            /\ UNCHANGED diph_left
       ELSE /\ diph_left' = ReactionIds({})
            /\ diph_pc' = "loop"
            /\ UNCHANGED <<result_dict, out_ids>>
    /\ UNCHANGED <<prog, given_model, ppi_ids, pi_ids, diph_verbose>>

\* diphosphate_test, lines 424-447: one pass of the loop
DiphLoop ==
    /\ prog = "diphosphate_test" /\ diph_pc = "loop" /\ diph_left # <<>>
    /\ result_dict' = Append(result_dict,
           [reaction_id |-> Head(diph_left),
            diphosphate_test |->
                DiphResult(given_model, ppi_ids, pi_ids, Head(diph_left))])
    /\ diph_left' = Tail(diph_left)
    /\ UNCHANGED <<prog, given_model, diph_pc, ppi_ids, pi_ids, diph_verbose,
                   out_ids>>

\* diphosphate_test, lines 448-461: the table
DiphFinish ==
    /\ prog = "diphosphate_test" /\ diph_pc = "loop" /\ diph_left = <<>>
    /\ out_ids' = add_reaction_equations(
                      [k \in 1..Len(result_dict) |-> result_dict[k].reaction_id])
    /\ diph_pc' = "done"
    /\ UNCHANGED <<prog, given_model, ppi_ids, pi_ids, diph_verbose, diph_left,
                   result_dict>>

diphRest == <<fvaVars, attrib, deRest, model_in, dilVars, bldVars, flipVars,
              dupVars, loopVars, extVars>>

NextDiph ==
    \/ DiphStart /\ UNCHANGED diphRest
    \/ DiphLoop /\ UNCHANGED diphRest
    \/ DiphFinish /\ UNCHANGED diphRest

SpecDiph == InitDiph /\ [][NextDiph]_vars

(***************************************************************************)
(* loop_test (macaw_flux_based.py): the bounds it edits, the table fva     *)
(* returns for the edited copy, and the labels.  The sampling of the       *)
(* flagged reactions and the edge list made from it, which do not change   *)
(* the table, are left out.                                                *)
(***************************************************************************)
\* the bounds of the reactions loop_test is given: those of the other
\* networks and a forced flux (a positive lower bound)
LoopBoundKinds == BoundKinds \cup {<<10, 1000>>}

LoopNetworks ==
    {MakeModel([r \in Rxns |-> [row |-> ChainRow(r), b |-> bs[r]]]) :
        bs \in [Rxns -> LoopBoundKinds]}

\* loop_test, lines 45-56: the bounds of one reaction of the copy
LoopBounds(mdl, r) ==
    LET lb1 == IF Boundary(mdl, r) THEN 0 ELSE mdl.lb[r]
        ub1 == IF Boundary(mdl, r) THEN 0 ELSE mdl.ub[r]
    IN <<IF lb1 > 0 THEN 0 ELSE lb1, ub1>>

\* the values fva can return for a reaction with the given bound: 0 (also
\* for a task that died), a nonzero flux (or infinity) if the bound allows
\* one, and NaN for a task that timed out three times or an infeasible model
FvaCells(bound) ==
    IF bound = 0 THEN {"zero", "nan"} ELSE {"zero", "nonzero", "nan"}

\* LoopLabel with NaN taken for no flux
LoopLabelResolved(row) ==
    IF row.minimum = "nonzero" \/ row.maximum = "nonzero"
    THEN "in loop" ELSE "ok"

\* the lambda of lines 62-66; NaN != 0 is True in Python
LoopLabel(row) ==
    IF row.minimum # "zero" \/ row.maximum # "zero" THEN "in loop" ELSE "ok"

InitLoop ==
    /\ prog = "loop_test"
    /\ IdleFva
    /\ IdleDil
    /\ IdleBuild
    /\ IdleFlip
    /\ IdleDup
    /\ IdleDiph
    /\ IdleExt
    /\ attrib = {}
    /\ given_model \in LoopNetworks
    /\ model_in = given_model
    /\ IdleDeRest
    /\ loop_pc = "start"
    /\ loop_model = given_model
    /\ fva_results = NoFvaResults
    /\ loop_labels = NoResults
    /\ out_ids = <<>>

\* loop_test, lines 43-56
LoopPrepare ==
    /\ prog = "loop_test" /\ loop_pc = "start"
    /\ loop_model' = [given_model EXCEPT
           !.lb = [r \in Rxns |-> LoopBounds(given_model, r)[1]],
           !.ub = [r \in Rxns |-> LoopBounds(given_model, r)[2]]]
    /\ loop_pc' = "fva"
    /\ UNCHANGED <<prog, given_model, fva_results, loop_labels, out_ids>>

\* loop_test, lines 57-61: fva(model) and reset_index
LoopFva ==
    /\ prog = "loop_test" /\ loop_pc = "fva"
    /\ \E tbl \in [Rxns -> [minimum : {"zero", "nonzero", "nan"},
                            maximum : {"zero", "nonzero", "nan"}]] :
          /\ \A r \in Rxns :
                /\ tbl[r].minimum \in FvaCells(loop_model.lb[r])
                /\ tbl[r].maximum \in FvaCells(loop_model.ub[r])
          /\ fva_results' = tbl
    /\ loop_pc' = "label"
    /\ UNCHANGED <<prog, given_model, loop_model, loop_labels, out_ids>>

\* loop_test, lines 62-66
LoopApply ==
    /\ prog = "loop_test" /\ loop_pc = "label"
    /\ loop_labels' = [r \in Rxns |-> LoopLabel(fva_results[r])]
    /\ loop_pc' = "table"
    /\ UNCHANGED <<prog, given_model, loop_model, fva_results, out_ids>>

\* loop_test, lines 102-112: the table, whose rows are those of fva's
LoopFinish ==
    /\ prog = "loop_test" /\ loop_pc = "table"
    /\ out_ids' = add_reaction_equations(WithColumn(ReactionIds({}), Rxns))
    /\ loop_pc' = "done"
    /\ UNCHANGED <<prog, given_model, loop_model, fva_results, loop_labels>>

loopRest == <<fvaVars, attrib, deRest, model_in, dilVars, bldVars, flipVars,
              dupVars, diphVars, extVars>>

NextLoop ==
    \/ LoopPrepare /\ UNCHANGED loopRest
    \/ LoopFva /\ UNCHANGED loopRest
    \/ LoopApply /\ UNCHANGED loopRest
    \/ LoopFinish /\ UNCHANGED loopRest

SpecLoop == InitLoop /\ [][NextLoop]_vars

(***************************************************************************)
(* The five tests that return a table with a row per reaction              *)
(***************************************************************************)
SpecTables ==
    /\ InitDeadEnd \/ InitDup \/ InitDiph \/ InitLoop \/ InitDil
    /\ [][NextDeadEnd \/ NextDup \/ NextDiph \/ NextLoop \/ NextDil]_vars

(***************************************************************************)
(* One worker process of the FVA pool: _pool_init and _fva_step            *)
(* (macaw_fva.py)                                                          *)
(***************************************************************************)
\* the reaction_id strings a worker is handed, as lists of characters: a
\* reaction, a sum, a difference, a negated reaction, the same reaction
\* twice, an id the model does not have, and an empty term
WorkerTargets ==
    {<<"a">>, <<"b">>, <<"a", "+", "b">>, <<"a", "+", "-", "b">>,
     <<"-", "a">>, <<"-", "b", "+", "a">>, <<"a", "+", "a">>,
     <<"a", "+", "c">>, <<"b", "+">>}

\* str.split(sep): the pieces between the separators, empty ones included
RECURSIVE Split(_, _)
Split(str, sep) ==
    IF \A k \in 1..Len(str) : str[k] # sep THEN <<str>>
    ELSE LET k == CHOOSE j \in 1..Len(str) :
                      str[j] = sep /\ \A h \in 1..(j - 1) : str[h] # sep
         IN <<SubSeq(str, 1, k - 1)>>
                \o Split(SubSeq(str, k + 1, Len(str)), sep)

\* str.startswith(ch)
StartsWith(str, ch) == Len(str) > 0 /\ str[1] = ch

\* str.lstrip(ch)
RECURSIVE LStrip(_, _)
LStrip(str, ch) ==
    IF StartsWith(str, ch) THEN LStrip(Tail(str), ch) ELSE str

\* _fva_step, lines 315-327: the dict coefs, term by term (a later term
\* overwrites an earlier one of the same reaction), or the KeyError of
\* model.reactions.get_by_id
RECURSIVE CoefsOf(_, _)
CoefsOf(terms, coefs) ==
    IF terms = <<>> THEN [exc |-> "none", coefs |-> coefs]
    ELSE LET r_id == Head(terms)
             minus == StartsWith(r_id, "-")
             id == IF minus THEN LStrip(r_id, "-") ELSE r_id
         IN IF id \notin WorkerRxnIds
            THEN [exc |-> "KeyError", coefs |-> coefs]
            ELSE CoefsOf(Tail(terms),
                         [x \in DOMAIN coefs \cup {id} |->
                             IF x = id
                             THEN IF minus
                                  THEN [forward |-> -1, reverse |-> 1]
                                  ELSE [forward |-> 1, reverse |-> -1]
                             ELSE coefs[x]])

\* objective.set_linear_coefficients(d): the coefficients of the variables in
\* d are replaced, the others are left as they are
set_linear_coefficients(obj, d) ==
    [id \in DOMAIN obj |-> IF id \in DOMAIN d THEN d[id] ELSE obj[id]]

\* the ways the solver call of lines 329-341 ends: with a value, with an
\* exception of the solver, or never (the pool then ends the process)
SolveOutcomes == {"value", "raised", "timeout"}

\* _fva_step, lines 342-349: the dict zeros
ZerosOf(terms) ==
    [id \in {LStrip(terms[k], "-") : k \in 1..Len(terms)} |->
        [forward |-> 0, reverse |-> 0]]

InitWorker ==
    /\ prog = "fva_worker"
    /\ IdleTests
    /\ IdleConstrain
    /\ IdleEdit
    \* fva line 162 and _pool_init: the model arrives with a zero objective
    /\ w_pc = "idle"
    /\ objective = ZeroObjective
    /\ w_queue \in [1..NumTargets -> WorkerTargets]
    /\ w_done = <<>>
    /\ w_raised = FALSE

\* _fva_step, lines 305-328: the coefficients of the target are set
FvaStepSet ==
    /\ prog = "fva_worker" /\ w_pc = "idle" /\ w_queue # <<>>
    /\ LET res == CoefsOf(Split(Head(w_queue), "+"), <<>>)
       IN IF res.exc # "none"
          THEN /\ w_done' = Append(w_done, [target |-> Head(w_queue),
                                          end |-> res.exc])
               /\ w_queue' = Tail(w_queue)
               /\ UNCHANGED <<w_pc, objective>>
          ELSE /\ objective' = set_linear_coefficients(objective, res.coefs)
               /\ w_pc' = "solve"
               /\ UNCHANGED <<w_queue, w_done>>
    /\ UNCHANGED <<prog, w_raised>>

\* _fva_step, lines 329-341: model.slim_optimize() and the value.  A task
\* that exceeds its timeout is stopped with its process, and the pool starts
\* a new process with _pool_init.
FvaStepSolve ==
    /\ prog = "fva_worker" /\ w_pc = "solve"
    /\ \E outcome \in SolveOutcomes :
         CASE outcome = "value" ->
                /\ w_pc' = "revert"
                /\ UNCHANGED <<objective, w_queue, w_done, w_raised>>
           [] outcome = "raised" ->
                /\ w_pc' = "idle"
                /\ w_queue' = Tail(w_queue)
                /\ w_done' = Append(w_done, [target |-> Head(w_queue),
                                          end |-> "raised"])
                /\ w_raised' = TRUE
                /\ UNCHANGED objective
           [] outcome = "timeout" ->
                /\ w_pc' = "idle"
                /\ w_queue' = Tail(w_queue)
                /\ objective' = ZeroObjective
                /\ w_done' = <<>>
                /\ w_raised' = FALSE
    /\ UNCHANGED prog

\* _fva_step, lines 342-350: the coefficients are set back and the value is
\* returned
FvaStepRevert ==
    /\ prog = "fva_worker" /\ w_pc = "revert"
    /\ objective' = set_linear_coefficients(
                        objective, ZerosOf(Split(Head(w_queue), "+")))
    /\ w_pc' = "idle"
    /\ w_queue' = Tail(w_queue)
    /\ w_done' = Append(w_done, [target |-> Head(w_queue), end |-> "value"])
    /\ UNCHANGED <<prog, w_raised>>

testVars == <<fvaVars, attrib, deVars, model_in, dilVars, bldVars, flipVars,
              dupVars, diphVars, loopVars, out_ids>>

NextWorker ==
    \/ FvaStepSet /\ UNCHANGED <<testVars, crVars, edVars>>
    \/ FvaStepSolve /\ UNCHANGED <<testVars, crVars, edVars>>
    \/ FvaStepRevert /\ UNCHANGED <<testVars, crVars, edVars>>

SpecWorker == InitWorker /\ [][NextWorker]_vars

(***************************************************************************)
(* constrain_reversible_rxns (macaw/macaw_dilution.py)                     *)
(*                                                                         *)
(* A float is a record: a number counted in ten-thousandths (so that       *)
(* round(x, 3) is not the identity), an infinity with its sign, or NaN.    *)
(***************************************************************************)
Num(n) == [k |-> "num", v |-> n]

\* a number given in whole units
Whole(n) == Num(n * 10000)

PosInf == [k |-> "inf", v |-> 1]

NegInf == [k |-> "inf", v |-> -1]

NaN == [k |-> "nan", v |-> 0]

\* a < b on floats (False when either is NaN)
FloatLt(a, b) ==
    IF a.k = "nan" \/ b.k = "nan" THEN FALSE
    ELSE IF a.k = "inf" THEN a.v = -1 /\ b # NegInf
    ELSE IF b.k = "inf" THEN b.v = 1
    ELSE a.v < b.v

\* a <= b on floats
FloatLe(a, b) == a.k # "nan" /\ b.k # "nan" /\ (a = b \/ FloatLt(a, b))

\* -1 * a
FloatNeg(a) == [a EXCEPT !.v = 0 - a.v]

\* abs(a)
FloatAbs(a) == IF a.v < 0 THEN FloatNeg(a) ELSE a

\* Series.fillna(value)
fillna(a, value) == IF a.k = "nan" THEN value ELSE a

\* round(a, 3): to the nearest thousandth, a tie to the even one
round3(a) ==
    IF a.k # "num" THEN a
    ELSE LET q == a.v \div 10
             r == a.v % 10
         IN Num(IF r < 5 THEN 10 * q
                ELSE IF r > 5 THEN 10 * (q + 1)
                ELSE IF q % 2 = 0 THEN 10 * q ELSE 10 * (q + 1))

\* r.reversibility on float bounds
CrReversibility(mdl, r) ==
    FloatLt(mdl.lb[r], Num(0)) /\ FloatLt(Num(0), mdl.ub[r])

\* the bounds of the caller's reactions: reversible with equal or unequal
\* limits, one of them a small fraction, and irreversible
CrBoundKinds ==
    {<<Whole(-1000), Whole(1000)>>, <<Whole(-10), Whole(1000)>>,
     <<Whole(-1000), Num(6)>>, <<Whole(0), Whole(1000)>>}

\* the caller's models: the chain -> m1 -> m2 -> ... (its first reaction is
\* an exchange reaction)
CrNetworks ==
    {MakeModel([r \in Rxns |-> [row |-> ChainRow(r), b |-> bs[r]]]) :
        bs \in [Rxns -> CrBoundKinds]}

\* the minima and maxima of an FVA table: found, infinite, or NaN
CrValues ==
    {NegInf, Whole(-1000), Whole(-10), Whole(0), Num(6), Whole(1000), PosInf}

CrRows ==
    {row \in [minimum : CrValues \cup {NaN}, maximum : CrValues \cup {NaN}] :
        (row.minimum # NaN /\ row.maximum # NaN) =>
            FloatLe(row.minimum, row.maximum)}

\* rev_rxns, lines 162-167
CrRevRxns(mdl) == {r \in Rxns : CrReversibility(mdl, r) /\ ~Boundary(mdl, r)}

\* the row an FVA table has for a reaction that is not in rev_rxns
CrOtherRow == [minimum |-> Whole(-1000), maximum |-> Whole(0)]

\* constrain_reversible_rxns, lines 192-237: one row of fva_results; `zero`
\* is below a ten-thousandth, so abs(x) <= zero is x = 0 here
CrApply(mdl, r, row) ==
    LET zero == Num(0)
    IN IF FloatLe(FloatAbs(row.minimum), zero)
          /\ FloatLe(FloatAbs(row.maximum), zero)
       THEN [mdl EXCEPT !.lb[r] = Num(0), !.ub[r] = Num(0)]
       ELSE IF FloatLe(FloatNeg(zero), row.minimum)
               /\ FloatLt(zero, row.maximum)
       THEN [mdl EXCEPT !.lb[r] = Num(0)]
       ELSE IF FloatLt(row.minimum, FloatNeg(zero))
               /\ FloatLe(row.maximum, zero)
       THEN [mdl EXCEPT !.S[r] = [m \in Mets |-> 0 - mdl.S[r][m]],
                        !.lb[r] = Num(0)]
       ELSE [mdl EXCEPT !.lb[r] = round3(row.minimum),
                        !.ub[r] = round3(row.maximum)]

InitConstrain ==
    /\ prog = "constrain_reversible_rxns"
    /\ IdleTests
    /\ IdleWorker
    /\ IdleEdit
    /\ cr_pc = "start"
    /\ cr_given \in CrNetworks
    /\ cr_model = cr_given
    /\ \E rows \in [CrRevRxns(cr_given) -> CrRows] :
          cr_results = [r \in Rxns |-> IF r \in CrRevRxns(cr_given)
                                       THEN rows[r] ELSE CrOtherRow]
    /\ cr_left = <<>>

\* constrain_reversible_rxns, lines 161-188: the copy, the rows of rev_rxns
\* only, and NaN taken for an infinite minimum or maximum
CrStart ==
    /\ prog = "constrain_reversible_rxns" /\ cr_pc = "start"
    /\ cr_model' = cr_given
    /\ cr_results' = [r \in Rxns |->
           [minimum |-> fillna(cr_results[r].minimum, NegInf),
            maximum |-> fillna(cr_results[r].maximum, PosInf)]]
    /\ cr_left' = SetToList(CrRevRxns(cr_given))
    /\ cr_pc' = "rows"
    /\ UNCHANGED <<prog, cr_given>>

\* constrain_reversible_rxns, lines 192-237: one pass of the loop
CrRow ==
    /\ prog = "constrain_reversible_rxns" /\ cr_pc = "rows" /\ cr_left # <<>>
    /\ cr_model' = CrApply(cr_model, Head(cr_left), cr_results[Head(cr_left)])
    /\ cr_left' = Tail(cr_left)
    /\ UNCHANGED <<prog, cr_pc, cr_given, cr_results>>

\* constrain_reversible_rxns, lines 239-250: the copy is returned
CrFinish ==
    /\ prog = "constrain_reversible_rxns" /\ cr_pc = "rows" /\ cr_left = <<>>
    /\ cr_pc' = "done"
    /\ UNCHANGED <<prog, cr_given, cr_model, cr_results, cr_left>>

NextConstrain ==
    \/ CrStart /\ UNCHANGED <<testVars, wkVars, edVars>>
    \/ CrRow /\ UNCHANGED <<testVars, wkVars, edVars>>
    \/ CrFinish /\ UNCHANGED <<testVars, wkVars, edVars>>

SpecConstrain == InitConstrain /\ [][NextConstrain]_vars

(***************************************************************************)
(* duplicate_test and diphosphate_test, for any verbose                    *)
(***************************************************************************)
SpecVerbose ==
    /\ InitDupArgs \/ InitDiph
    /\ [][NextDup \/ NextDiph]_vars

(***************************************************************************)
(* dead_end_test on a model whose metabolites are listed in any order      *)
(***************************************************************************)
\* dead_end_test, lines 36-39, for a list model.metabolites in any order:
\* the next metabolite of the list is any metabolite not yet taken
DeOuterAnyOrder ==
    /\ prog = "dead_end_test"
    /\ de_pc = "loop" /\ stack = <<>> /\ outer_left # {}
    /\ \E met \in outer_left :
          /\ outer_left' = outer_left \ {met}
          /\ CallInner(met, stack)
    /\ UNCHANGED <<prog, aliased, de_pc, test_results>>

NextDeadEndAnyOrder ==
    \/ DeOuterAnyOrder /\ UNCHANGED <<fvaVars, attrib, model_in, dilVars,
                              bldVars, tblVars, out_ids>>
    \/ DeRecurse /\ UNCHANGED <<fvaVars, attrib, model_in, dilVars, bldVars,
                              tblVars, out_ids>>
    \/ DeReturn /\ UNCHANGED <<fvaVars, attrib, model_in, dilVars, bldVars,
                              tblVars, out_ids>>
    \/ DeFinish /\ UNCHANGED <<fvaVars, attrib, model_in, dilVars,
                              bldVars, tblVars>>

SpecDeadEndAnyOrder == InitDeadEnd /\ [][NextDeadEndAnyOrder]_vars

(***************************************************************************)
(* edit_dead_end_bounds (macaw/utils.py), given the model dead_end_test    *)
(* was given and the table it returned.  The bounds are set through the    *)
(* setters of cobra 0.29.0, as in flip_reaction.                           *)
(***************************************************************************)
\* the bounds of a reaction that is forced to carry flux, backward or
\* forward
ForcedBounds == {<<-1000, -10>>, <<10, 1000>>}

\* the models given: those of Networks, and those with one reaction forced
EditNetworks ==
    Networks \cup
    {[n EXCEPT !.lb[r] = b[1], !.ub[r] = b[2]] :
        n \in Networks, r \in Rxns, b \in ForcedBounds}

\* dead_end_test: the lists and the working copy after the loop of
\* lines 36-39
DeadEndLoop(mdl) ==
    RunOuter([model |-> mdl, dead_end_mets |-> <<>>, dead_end_rxns |-> <<>>,
              fwd_only |-> <<>>, rev_only |-> <<>>], Mets, FALSE)

\* model.reactions.get_by_id(id) as the Reaction flip_reaction is given
ReactionOf(mdl, r) == [S |-> mdl.S[r], lb |-> mdl.lb[r], ub |-> mdl.ub[r]]

\* the model with reaction r as `rxn`
WithReaction(mdl, r, rxn) ==
    [mdl EXCEPT !.S[r] = rxn.S, !.lb[r] = rxn.lb, !.ub[r] = rxn.ub]

\* edit_dead_end_bounds, lines 124-137 with the flip left out: the row
\* `only when going forwards` sets upper_bound = 0 only
EditRowWithoutFlip(mdl, r, kind) ==
    IF kind = "ok" THEN [model |-> mdl, exc |-> "none"]
    ELSE IF kind = "only when going backwards"
    THEN IF BoundsRefused(0, mdl.ub[r])
         THEN [model |-> mdl, exc |-> "ValueError"]
         ELSE [model |-> [mdl EXCEPT !.lb[r] = 0], exc |-> "none"]
    ELSE IF kind = "only when going forwards"
    THEN IF BoundsRefused(mdl.lb[r], 0)
         THEN [model |-> mdl, exc |-> "ValueError"]
         ELSE [model |-> [mdl EXCEPT !.ub[r] = 0], exc |-> "none"]
    ELSE IF BoundsRefused(0, mdl.ub[r])
         THEN [model |-> mdl, exc |-> "ValueError"]
         ELSE [model |-> [mdl EXCEPT !.lb[r] = 0, !.ub[r] = 0],
               exc |-> "none"]

\* edit_dead_end_bounds, lines 124-137: one row of the table
EditRow(mdl, r, kind) ==
    IF kind = "ok" THEN [model |-> mdl, exc |-> "none"]
    ELSE IF kind = "only when going backwards"
    THEN IF BoundsRefused(0, mdl.ub[r])
         THEN [model |-> mdl, exc |-> "ValueError"]
         ELSE [model |-> [mdl EXCEPT !.lb[r] = 0], exc |-> "none"]
    ELSE IF kind = "only when going forwards"
    THEN IF BoundsRefused(mdl.lb[r], 0)
         THEN [model |-> mdl, exc |-> "ValueError"]
         ELSE LET res == FlipCall(ReactionOf([mdl EXCEPT !.ub[r] = 0], r))
              IN [model |-> WithReaction(mdl, r, res.reaction),
                  exc |-> res.exc]
    ELSE \* a list of metabolite ids
         IF BoundsRefused(0, mdl.ub[r])
         THEN [model |-> mdl, exc |-> "ValueError"]
         ELSE [model |-> [mdl EXCEPT !.lb[r] = 0, !.ub[r] = 0],
               exc |-> "none"]

InitEdit ==
    /\ prog = "edit_dead_end_bounds"
    /\ IdleTests
    /\ IdleWorker
    /\ IdleConstrain
    /\ ed_pc = "test"
    /\ ed_given \in EditNetworks
    /\ ed_working = ed_given
    /\ ed_results = NoResults
    /\ ed_model = ed_given
    /\ ed_left = <<>>
    /\ ed_exc = "none"

\* the caller runs dead_end_test(given_model) and passes its table on;
\* edit_dead_end_bounds, lines 118-123, copies the model
EditStart ==
    /\ prog = "edit_dead_end_bounds" /\ ed_pc = "test"
    /\ ed_working' = DeadEndLoop(ed_given).model
    /\ ed_results' = DeadEndTable(ed_given)
    /\ ed_model' = ed_given
    /\ ed_left' = SetToList(Rxns)
    /\ ed_pc' = "rows"
    /\ UNCHANGED <<prog, ed_given, ed_exc>>

\* edit_dead_end_bounds, lines 124-137: the next row
EditNextRow ==
    /\ prog = "edit_dead_end_bounds" /\ ed_pc = "rows" /\ ed_left # <<>>
    /\ LET r == Head(ed_left)
           res == EditRow(ed_model, r, ed_results[r].kind)
       IN /\ ed_model' = res.model
          /\ ed_exc' = res.exc
          /\ ed_pc' = IF res.exc = "none" THEN "rows" ELSE "raised"
    /\ ed_left' = Tail(ed_left)
    /\ UNCHANGED <<prog, ed_given, ed_working, ed_results>>

\* edit_dead_end_bounds, line 138
EditReturn ==
    /\ prog = "edit_dead_end_bounds" /\ ed_pc = "rows" /\ ed_left = <<>>
    /\ ed_pc' = "done"
    /\ UNCHANGED <<prog, ed_given, ed_working, ed_results, ed_model, ed_left,
                   ed_exc>>

NextEdit ==
    \/ EditStart /\ UNCHANGED <<testVars, wkVars, crVars>>
    \/ EditNextRow /\ UNCHANGED <<testVars, wkVars, crVars>>
    \/ EditReturn /\ UNCHANGED <<testVars, wkVars, crVars>>

SpecEdit == InitEdit /\ [][NextEdit]_vars

(***************************************************************************)
(* Properties                                                              *)
(***************************************************************************)
NoRepeats(lst) == \A j, k \in 1..Len(lst) : lst[j] = lst[k] => j = k

\* C7: add_dilution_constraints applied to a model it returned, with the
\* same arguments, raises no error and returns a model equal to its input:
\* no further reaction, no second constraint, no changed bound
C7_BuilderIdempotent ==
    (prog = "add_dilution_constraints" /\ b_calls = 2) =>
        /\ b_exc = "none"
        /\ b_pc = "done" => model = given_model

\* what holds instead: the second call adds no dilution and no leakage
\* reaction
C7_SecondCallAddsNoReaction ==
    (prog = "add_dilution_constraints" /\ b_calls = 2) =>
        /\ model.dil = given_model.dil
        /\ model.leak = given_model.leak

C7_Witness ==
    /\ prog = "add_dilution_constraints" /\ b_calls = 2 /\ b_pc = "done"
    /\ model.dil # {} /\ model.leak # {}
    /\ Len(model.cons) > Len(given_model.cons)

\* the dilution reaction and the dilution constraint of metabolite m are
\* in the model: one constraint of that name, which subtracts dil_factor
\* times the flux of `<m>_dilution` from the summed fluxes of every other
\* reaction of m
Diluted(mdl, m, factor) ==
    /\ make_dilution_reaction(m) \in mdl.dil
    /\ Cardinality({k \in 1..Len(mdl.cons) : mdl.cons[k].name = m}) = 1
    /\ \A k \in 1..Len(mdl.cons) :
          mdl.cons[k].name = m =>
             /\ mdl.cons[k].minus = {m}
             /\ mdl.cons[k].factor = factor
             /\ mdl.cons[k].plus_rxns = RxnsOf(mdl, m)
             /\ mdl.cons[k].plus_leak =
                   {l \in mdl.leak : l.m1 = m \/ l.m2 = m}

\* C8: for every input model, with or without dilution reactions of other
\* metabolites, and every m of mets_to_dilute the model returned for
\* dil_factor > 0 has the reaction `<m>_dilution` and its constraint
C8_EveryMetaboliteDiluted ==
    (/\ prog = "add_dilution_constraints" /\ b_calls = 1 /\ b_pc = "done"
     /\ dil_factor > 0) =>
        \A m \in mets_to_dilute : Diluted(model, m, dil_factor)

\* what holds instead: the same for the input models without a dilution
\* reaction
C8_DilutedWhenNoneBefore ==
    (/\ prog = "add_dilution_constraints" /\ b_calls = 1 /\ b_pc = "done"
     /\ dil_factor > 0 /\ given_model.dil = {}) =>
        \A m \in mets_to_dilute : Diluted(model, m, dil_factor)

C8_Witness ==
    /\ prog = "add_dilution_constraints" /\ b_calls = 1 /\ b_pc = "done"
    /\ dil_factor > 0 /\ given_model.dil = {}
    /\ model.leak # {}
    /\ Cardinality(mets_to_dilute) > 1

\* the leakage reactions the pairs of metabolites call for: one for every
\* pair with the same name once the compartment suffix is stripped and with
\* a reaction in common
LeakageWanted(mdl, bound) ==
    {[m1 |-> p[1], m2 |-> p[2], lb |-> 0 - bound, ub |-> bound] :
        p \in {q \in Mets \X Mets :
                 /\ q[1] < q[2]
                 /\ StripCompartment(mdl.name[q[1]], compartment(q[1]))
                    = StripCompartment(mdl.name[q[2]], compartment(q[2]))
                 /\ RxnsOf(mdl, q[1]) \cap RxnsOf(mdl, q[2]) # {}}}

\* C9: on a model without leakage reactions and with bound # 0,
\* add_leakage_reactions adds exactly the leakage reactions the pairs of
\* metabolites call for
C9_LeakageForEveryPair ==
    (/\ prog = "add_dilution_constraints" /\ b_calls = 1
     /\ b_pc = "constraints" /\ leak_flux # 0) =>
        model.leak = LeakageWanted(model, leak_flux)

\* what holds instead: the same when no name carries a compartment suffix
C9_LeakageForPlainNames ==
    (/\ prog = "add_dilution_constraints" /\ b_calls = 1
     /\ b_pc = "constraints" /\ leak_flux # 0
     /\ \A m \in Mets : model.name[m].suffix = 0) =>
        model.leak = LeakageWanted(model, leak_flux)

C9_Witness ==
    /\ prog = "add_dilution_constraints" /\ b_calls = 1
    /\ b_pc = "constraints" /\ leak_flux # 0
    /\ \A m \in Mets : model.name[m].suffix = 0
    /\ model.leak # {}
    /\ \E m, n \in Mets :
          /\ m # n /\ model.name[m] = model.name[n]
          /\ RxnsOf(model, m) \cap RxnsOf(model, n) = {}

\* C10: for any finite network dead_end_test terminates (the number of
\* calls of _dead_end_test_inner is bounded by the size of the network: one
\* per metabolite from dead_end_test, and one per metabolite of the loop of
\* each call that classified a metabolite or restricted a reaction; and a
\* step is always possible until the test is done), and a metabolite
\* already classified as a dead end is never classified again:
\* dead_end_mets and dead_end_rxns never contain the same element twice.
C10_DeadEndTerminatesNoRevisit ==
    prog = "dead_end_test" =>
        /\ NoRepeats(dead_end_mets)
        /\ NoRepeats(dead_end_rxns)
        /\ visited = dead_end_mets
        /\ de_calls <= NumMets + NumMets * (NumMets + NumRxns)
        /\ Len(stack) <= NumMets + NumRxns
        /\ (de_pc # "done" => ENABLED NextDeadEnd)

\* C1: the model object the caller passed in is after the call what it was
\* before it (same stoichiometry and bounds), on every path through the
\* call, the post-classification step of dilution_test included
C1_CallerModelUnchanged == given_model = model_in

\* what holds instead: the package's dilution_test, which hands
\* _dead_end_test_inner the objects of a copy, and dead_end_test leave the
\* caller's model as it was
C1_CopiesLeaveCallerModel ==
    (prog = "dead_end_test" \/ (prog = "dilution_test" /\ variant = "package"))
        => given_model = model_in

C1_Witness ==
    /\ prog = "dilution_test" /\ variant = "package" /\ dil_pc = "done"
    /\ \E r \in Rxns : Reversibility(given_model, r)
    /\ Len(blocked_rxns) > 0

\* C4: in pebble_fva and in dilution_test every outcome consumed from the
\* result stream is recorded against the item that produced it, in the
\* first batch and in every retry batch
C4_OutcomeGoesToItsItem ==
    /\ \A a \in attrib : a.producer = a.recorded
    /\ (prog = "fva" /\ fva_pc = "consume") =>
          /\ iterator.items = to_do
          /\ iterator.pos = i
    /\ (prog = "dilution_test" /\ dil_pc = "consume") =>
          \/ dil_iterator.items = mets_to_test /\ dil_iterator.pos = dil_i
          \/ dil_iterator.pos = Len(dil_iterator.items)

C4_Witness ==
    /\ prog = "fva" /\ fva_pc = "consume" /\ attempts = 2
    /\ to_do[1] # reaction_ids[1]
    /\ i = Len(to_do)
    /\ \E a \in attrib : a.recorded = to_do[1]

\* C5: when dilution_test returns, no metabolite whose task produced no
\* result is left with the empty result (it has the result error), no
\* reaction is left unlabelled, and the retry ceiling raises no exception
C5_UnresolvedAreError ==
    prog = "dilution_test" =>
        /\ dil_pc = "done" =>
              /\ \A m \in Mets : met_dict[m] # ""
              /\ \A r \in Rxns : dil_out[r].kind # ""
        /\ dil_exc \notin {"KeyError", "IndexError"}

\* C6: if every metabolite submitted ended in an error outcome (a NaN
\* result, a timeout or a fault, in any mixture), dilution_test raises and
\* does not get to build its table
C6_AllErrorsRaise ==
    (prog = "dilution_test" /\ dil_pc \in {"post", "out", "done"}) =>
        \E m \in Mets : met_dict[m] \notin {"", "error"}

\* C2: a target for which no task returned a value is NaN in the table fva
\* returns
C2_NoValueIsNaN ==
    (prog = "fva" /\ fva_pc = "done") =>
        \A r \in Targets : <<direc, r>> \notin got => out_df[direc][r] = "nan"

\* what fva returns instead: a target whose task timed out in every batch is
\* NaN; a target whose task died or raised keeps the table's initial zero
C2_FaultedKeepsZero ==
    (prog = "fva" /\ fva_pc = "done") =>
        \A r \in Targets : <<direc, r>> \notin got =>
            out_df[direc][r] = IF InList(r, to_do) THEN "nan" ELSE "zero"

C2_Witness ==
    /\ prog = "fva" /\ fva_pc = "done"
    /\ \E r, q \in Targets :
         /\ <<direc, r>> \notin got /\ out_df[direc][r] = "zero"
         /\ <<direc, q>> \notin got /\ out_df[direc][q] = "nan"

\* C3: pebble_fva terminates after at most three batches whatever the
\* outcomes of the tasks: a batch submits exactly the targets still to do,
\* each once; the stream of a batch ends once they are consumed; no
\* exception leaves the function; a step is possible until fva returns.
C3_AtMostThreeBatches ==
    prog = "fva" =>
        /\ Len(batches) <= FvaMaxAttempts
        /\ attempts = Len(batches)
        /\ fva_exc = "none" /\ fva_pc # "raised"
        /\ \A k \in 1..Len(batches) :
              /\ NoRepeats(batches[k].items)
              /\ batches[k].items # <<>>
              /\ k > 1 => Len(batches[k].items) <= Len(batches[k - 1].items)
        /\ fva_pc \in {"consume", "batch_end"} =>
              /\ iterator.items = to_do
              /\ i <= Len(to_do) + 1
        /\ fva_pc = "batch_end" => iterator.pos = Len(to_do)
        /\ fva_pc # "done" => ENABLED NextFva

C3_Witness ==
    /\ prog = "fva" /\ fva_pc = "done"
    /\ Len(batches) = FvaMaxAttempts
    /\ \E r, q \in Targets :
         /\ out_df[direc][r] = "nan" /\ InList(r, batches[FvaMaxAttempts].items)
         /\ <<direc, q>> \notin got /\ ~InList(q, batches[2].items)

\* C10 witness: the loop over model.metabolites is about to reach a
\* metabolite that a recursive call has already classified
C10_Witness ==
    /\ prog = "dead_end_test" /\ de_pc = "loop" /\ stack = <<>>
    /\ outer_left # {}
    /\ InList(NextMet(outer_left), dead_end_mets)
    /\ Len(dead_end_rxns) >= 2

(***************************************************************************)
(* pebble_fva: faults and the timeout of each batch                        *)
(***************************************************************************)

\* a step of pebble_fva's inner loop that handled a worker-level fault: the
\* only steps that raise the counter `failed`
FaultStep == prog = "fva" /\ fva_pc = "consume" /\ failed' = failed + 1

\* C18: a target whose task ends with a worker-level fault in a batch before
\* the third is put on the list that becomes the next batch, as a timed-out
\* target is
C18_FaultedIsRetried ==
    [][(FaultStep /\ attempts < FvaMaxAttempts /\ i + 1 <= Len(to_do)) =>
           InList(to_do[i + 1], to_redo')]_vars

\* what pebble_fva does with a fault: it counts it and leaves both the list
\* of targets to redo and the table as they were
C18_FaultedIsOnlyCounted ==
    [][FaultStep => (to_redo' = to_redo /\ out_df' = out_df /\ to_do' = to_do)]_vars

\* a fault was handled in the first batch, whose target is not in the second
C18_Witness ==
    /\ prog = "fva" /\ fva_pc = "consume"
    /\ Len(batches) = 2
    /\ \E r \in Targets :
         /\ InList(r, batches[1].items)
         /\ ~InList(r, batches[2].items)
         /\ <<direc, r>> \notin got

\* C19: the timeout given to the tasks of batch k is k times the timeout
\* pebble_fva was called with, for k = 1, 2, 3
C19_TimeoutIsKTimesT ==
    prog = "fva" =>
        \A k \in 1..Len(batches) : batches[k].timeout = k * timeout0

\* the product 1 * 2 * ... * k
RECURSIVE Factorial(_)
Factorial(k) == IF k <= 1 THEN 1 ELSE k * Factorial(k - 1)

\* what pebble_fva passes: `timeout *= attempts` multiplies the timeout of
\* the batch before, so that batch k runs with k! times the timeout
C19_TimeoutIsFactorialTimesT ==
    prog = "fva" =>
        \A k \in 1..Len(batches) :
            batches[k].timeout = Factorial(k) * timeout0

C19_Witness ==
    /\ prog = "fva" /\ fva_pc = "consume"
    /\ Len(batches) = FvaMaxAttempts
    /\ batches[FvaMaxAttempts].timeout = 6 * timeout0

(***************************************************************************)
(* dilution_test: the labels                                               *)
(***************************************************************************)

\* the flux range of a metabolite before its dilution constraint is zero:
\* every reaction compared has minimum and maximum 0 in fva_before
ZeroBefore(v, rows, rel, before) ==
    \A r \in (IF v = "script" THEN rows ELSE rel) : before[r]

\* the flux range after the dilution constraint is zero
ZeroAfter(v, out, rows) ==
    IF v = "script" THEN \A r \in rows : r \in out.az
    ELSE out.max_dil = "zero"

\* the task returned a result that is not all NaN
Resolved(v, out) == IF v = "script" THEN ~out.na ELSE out.max_dil # "nan"

\* C15: whatever resolved result the next task returns, the label the
\* metabolite gets is `blocked by dilution` exactly when its flux range is
\* nonzero before and zero after, `unblocked by dilution` exactly when zero
\* before and nonzero after, `always blocked` exactly when zero in both and
\* `ok` exactly when nonzero in both; it is always one of the four
C15_FourWayLabel ==
    (/\ prog = "dilution_test" /\ dil_pc = "consume"
     /\ dil_iterator.pos < Len(dil_iterator.items)
     /\ dil_i + 1 <= Len(mets_to_test)) =>
        LET rows == RxnsOf(given_model, Producer(dil_iterator))
            rel  == RxnsOf(given_model, mets_to_test[dil_i + 1])
            zb   == ZeroBefore(variant, rows, rel, before_zero)
        IN \A out \in DilValues(variant, given_model, Producer(dil_iterator)) :
              Resolved(variant, out) =>
                 LET res == DilResult(variant, out, rows, rel, before_zero)
                     za  == ZeroAfter(variant, out, rows)
                 IN /\ res \in {"blocked by dilution", "unblocked by dilution",
                                "always blocked", "ok"}
                    /\ (res = "blocked by dilution") <=> (~zb /\ za)
                    /\ (res = "unblocked by dilution") <=> (zb /\ ~za)
                    /\ (res = "always blocked") <=> (zb /\ za)
                    /\ (res = "ok") <=> (~zb /\ ~za)

\* the results consumed so far gave three metabolites three different
\* labels
C15_Witness ==
    /\ prog = "dilution_test" /\ dil_pc = "consume"
    /\ \E m, n \in Mets :
         /\ met_dict[m] = "blocked by dilution"
         /\ met_dict[n] = "unblocked by dilution"
    /\ \E m \in Mets : met_dict[m] \in {"always blocked", "ok"}

\* C16: a reaction labelled `blocked by dilution` keeps the label in every
\* later step of dilution_test's processing of the results
C16_BlockedIsKept ==
    [][prog = "dilution_test" =>
          \A r \in Rxns : rxn_dict[r] = "blocked by dilution" =>
                             rxn_dict'[r] = "blocked by dilution"]_vars

\* r2 was labelled by the result of m1 and the result of m2, of which r2 is
\* a reaction too, was a different one
C16_Witness ==
    /\ prog = "dilution_test"
    /\ met_dict[1] = "blocked by dilution"
    /\ met_dict[2] \in {"ok", "error", "always blocked", "unblocked by dilution"}
    /\ rxn_dict[2] = "blocked by dilution"

\* C20: every pass of dilution_test's retry loop consumes the results of
\* tasks submitted for the metabolites still to test, so that a metabolite
\* whose task timed out or died below max_attempts gets a new task
C20_RetriedAreResubmitted ==
    (prog = "dilution_test" /\ dil_pc = "consume") =>
        dil_iterator.items = mets_to_test

\* what dilution_test does: the one stream of results made before the loop
\* holds one task per metabolite, and a pass after the first finds it
\* consumed
C20_OneTaskPerMetabolite ==
    (prog = "dilution_test" /\ dil_pc \in {"consume", "checks"}) =>
        /\ dil_iterator.items = SetToList(Mets)
        /\ dil_attempts > 1 =>
              /\ dil_iterator.pos = Len(dil_iterator.items)
              /\ dil_to_redo = <<>>

\* the second pass has begun for a metabolite whose task timed out or died
C20_Witness ==
    /\ prog = "dilution_test" /\ dil_pc = "consume"
    /\ dil_attempts = 2 /\ max_attempts > 2
    /\ mets_to_test # <<>>
    /\ \A k \in 1..Len(mets_to_test) : met_dict[mets_to_test[k]] = ""

(***************************************************************************)
(* flip_reaction                                                           *)
(***************************************************************************)

\* C12: two calls of flip_reaction on a reaction of any coefficients and
\* bounds both return and leave every coefficient, the lower bound and the
\* upper bound as they were before the first
C12_FlipTwiceRestores ==
    prog = "flip_reaction" =>
        /\ flip_exc = "none"
        /\ flips = 2 => reaction = reaction_in

\* what flip_reaction does: the two calls restore a reaction whose bounds
\* have 0 between them; a call on a reaction whose upper bound is below 0
\* raises ValueError after it negated the coefficients, and the bounds stay
C12_RestoresWhenZeroInBounds ==
    prog = "flip_reaction" =>
        /\ (reaction_in.lb <= 0 /\ 0 <= reaction_in.ub) =>
              /\ flip_exc = "none"
              /\ flips = 2 => reaction = reaction_in
        /\ flip_exc # "none" <=>
              \/ flips = 1 /\ reaction_in.ub < 0
              \/ flips = 2 /\ reaction_in.lb > 0
        /\ flip_exc # "none" =>
              /\ reaction.lb = (IF flips = 1 THEN reaction_in.lb
                                ELSE -1 * reaction_in.ub)
              /\ \A m \in Mets :
                    reaction.S[m] = (IF flips = 1 THEN -1 * reaction_in.S[m]
                                     ELSE reaction_in.S[m])

\* a reaction with coefficients of both signs and a reversible range was
\* flipped twice
C12_Witness ==
    /\ prog = "flip_reaction" /\ flips = 2 /\ flip_exc = "none"
    /\ reaction_in.lb < 0 /\ reaction_in.ub > 0
    /\ reaction_in.lb # -1 * reaction_in.ub
    /\ \E m, n \in Mets : reaction_in.S[m] < 0 /\ reaction_in.S[n] > 1

(***************************************************************************)
(* duplicate_test                                                          *)
(***************************************************************************)

\* the duplicate_test_exact entry of a reaction: the ids appended for it
\* (joined by semicolons in the table, `ok` if there are none)
ListedAsExact(r, q) == InList(q, exact_dupes[r])

\* C13: when duplicate_test returns, any two distinct reactions with the
\* same metabolites, the same coefficients and the same reversibility are
\* each listed in the other's exact-duplicate result
C13_IdenticalAreExact ==
    (prog = "duplicate_test" /\ dup_pc = "done") =>
        \A r, q \in Rxns :
            (/\ r # q
             /\ given_model.S[r] = given_model.S[q]
             /\ Reversibility(given_model, r) = Reversibility(given_model, q))
            => (ListedAsExact(r, q) /\ ListedAsExact(q, r))

\* what duplicate_test returns: such reactions are listed as exact
\* duplicates exactly when they have a reactant; two reactions without
\* reactants are listed as direction duplicates instead
C13_ExactWhenTheyHaveReactants ==
    (prog = "duplicate_test" /\ dup_pc = "done") =>
        \A r, q \in Rxns :
            (/\ r # q
             /\ given_model.S[r] = given_model.S[q]
             /\ Reversibility(given_model, r) = Reversibility(given_model, q))
            => /\ ListedAsExact(r, q) <=> Reactants(given_model, r) # {}
               /\ ListedAsExact(q, r) <=> Reactants(given_model, r) # {}
               /\ InList(q, direction_dupes[r]) <=>
                     Reactants(given_model, r) = {}

\* two reactions with the same coefficients, a reactant and different bounds
\* of the same reversibility were compared and listed
C13_Witness ==
    /\ prog = "duplicate_test" /\ dup_pc = "done"
    /\ \E r, q \in Rxns :
         /\ r # q
         /\ given_model.S[r] = given_model.S[q]
         /\ given_model.lb[r] # given_model.lb[q]
         /\ Reactants(given_model, r) # {}
         /\ ListedAsExact(r, q) /\ ListedAsExact(q, r)

(***************************************************************************)
(* diphosphate_test                                                        *)
(***************************************************************************)

\* the diphosphate_test entry of a reaction in the table returned
DiphEntry(r) ==
    LET k == CHOOSE j \in 1..Len(result_dict) : result_dict[j].reaction_id = r
    IN result_dict[k].diphosphate_test

DiphFlagged(r) ==
    DiphEntry(r) \in {"should be irreversible",
                      "should be flipped and made irreversible"}

C17_InLoopIffResolvedNonzero ==
    (prog = "loop_test" /\ loop_pc = "done") =>
        /\ \A r \in Rxns : Boundary(given_model, r) =>
              (loop_model.lb[r] = 0 /\ loop_model.ub[r] = 0)
        /\ \A r \in Rxns :
              loop_labels[r] = "in loop" <=>
                 \/ fva_results[r].minimum = "nonzero"
                 \/ fva_results[r].maximum = "nonzero"

\* what loop_test returns: a reaction is `in loop` exactly when its minimum
\* or its maximum is not 0, a NaN included
C17_InLoopIffNotZero ==
    (prog = "loop_test" /\ loop_pc = "done") =>
        /\ \A r \in Rxns : Boundary(given_model, r) =>
              (loop_model.lb[r] = 0 /\ loop_model.ub[r] = 0)
        /\ \A r \in Rxns :
              loop_labels[r] = "in loop" <=>
                 \/ fva_results[r].minimum \in {"nonzero", "nan"}
                 \/ fva_results[r].maximum \in {"nonzero", "nan"}

\* a table with a reaction of nonzero range, one blocked and one unresolved
C17_Witness ==
    /\ prog = "loop_test" /\ loop_pc = "done"
    /\ \E r, q, t \in Rxns :
         /\ fva_results[r].maximum = "nonzero" /\ loop_labels[r] = "in loop"
         /\ fva_results[q] = [minimum |-> "zero", maximum |-> "zero"]
         /\ loop_labels[q] = "ok"
         /\ fva_results[t] = [minimum |-> "nan", maximum |-> "nan"]
         /\ loop_labels[t] = "in loop"

(***************************************************************************)
(* The tables                                                              *)
(***************************************************************************)

\* a test has returned its table
TableReturned ==
    \/ prog = "dead_end_test" /\ de_pc = "done"
    \/ prog = "duplicate_test" /\ dup_pc = "done"
    \/ prog = "diphosphate_test" /\ diph_pc = "done"
    \/ prog = "loop_test" /\ loop_pc = "done"
    \/ prog = "dilution_test" /\ dil_pc = "done"

\* C11: the table returned by dead_end_test, duplicate_test,
\* diphosphate_test, loop_test or dilution_test has exactly one row for
\* each reaction of the caller's model and no other row (none for a leakage
\* or dilution reaction of the working copy)
C11_OneRowPerReaction ==
    TableReturned =>
        /\ \A r \in Rxns :
              Cardinality({k \in 1..Len(out_ids) : out_ids[k] = r}) = 1
        /\ \A k \in 1..Len(out_ids) : out_ids[k] \in Rxns

\* the script's dilution_test, whose working copy may hold leakage
\* reactions, returned a table with a reaction blocked by a dilution
\* constraint and one that is not
C11_Witness ==
    /\ prog = "dilution_test" /\ dil_pc = "done" /\ variant = "script"
    /\ Len(out_ids) = NumRxns
    /\ \E r, q \in Rxns :
         /\ dil_out[r].kind = "blocked by dilution"
         /\ dil_out[q].kind = "ok"


(***************************************************************************)
(* C21: when dead_end_test returns, every metabolite that is not in        *)
(* dead_end_mets has at least 2 reactions outside dead_end_rxns, and it is *)
(* not the case that none of them is reversible while all of them produce  *)
(* it or all of them consume it (final model of the test).                 *)
(***************************************************************************)
\* the reactions of m that are not dead ends
LiveRxns(m) == {r \in RxnsOf(model, m) : ~InList(r, dead_end_rxns)}

\* m meets one of the two conditions under which it is a dead end
MeetsDeadEndCondition(m) ==
    \/ Cardinality(LiveRxns(m)) < 2
    \/ /\ \A r \in LiveRxns(m) : ~Reversibility(model, r)
       /\ \/ \A r \in LiveRxns(m) : m \in Products(model, r)
          \/ \A r \in LiveRxns(m) : m \in Reactants(model, r)

C21_NoDeadEndLeft ==
    (prog = "dead_end_test" /\ de_pc = "done") =>
        \A m \in Mets :
            ~InList(m, dead_end_mets) => ~MeetsDeadEndCondition(m)

\* a run that marked a reaction dead, restricted another one, and left a
\* metabolite alive that was looked at more than once
C21_Witness ==
    /\ prog = "dead_end_test" /\ de_pc = "done"
    /\ dead_end_rxns # <<>>
    /\ Len(fwd_only) + Len(rev_only) > 0
    /\ \E m \in Mets : ~InList(m, dead_end_mets)
    /\ de_calls > NumMets


(***************************************************************************)
(* C22: a call of _dead_end_test_inner on a metabolite that is not dead,   *)
(* has at least 2 reactions that are not dead, exactly one of them         *)
(* reversible, and whose irreversible ones all produce it (all consume     *)
(* it), leaves the reversible reaction with lower bound 0 and a positive   *)
(* upper bound, written so that it consumes (produces) the metabolite,     *)
(* adds neither the reaction nor the metabolite to the dead ends, and goes *)
(* on to the other metabolites of that reaction.                           *)
(***************************************************************************)
\* this step is the body of _dead_end_test_inner(m, ...)
CalledOn(m) ==
    /\ prog = "dead_end_test" /\ de_pc = "loop"
    /\ de_calls' = de_calls + 1
    /\ \/ stack = <<>> /\ outer_left # {} /\ m = NextMet(outer_left)
       \/ /\ stack # <<>>
          /\ Head(stack).mets \
                 stack'[Len(stack') - Len(stack) + 1].mets = {m}

\* m is alive with at least 2 live reactions, q the only reversible one
OneReversible(m, q) ==
    /\ ~InList(m, dead_end_mets)
    /\ Cardinality(LiveRxns(m)) >= 2
    /\ {r \in LiveRxns(m) : Reversibility(model, r)} = {q}

\* after the step q is irreversible forward, neither q nor m is dead, and
\* the newest loop goes over the other metabolites of q, none of them dead
RestrictedAndRevisited(m, q) ==
    /\ model'.lb[q] = 0 /\ model'.ub[q] > 0
    /\ ~InList(q, dead_end_rxns') /\ ~InList(m, dead_end_mets')
    /\ \A n \in MetsOf(model, q) \ {m} :
          /\ ~InList(n, dead_end_mets')
          /\ Len(stack') = Len(stack) + 1
          /\ n \in Head(stack').mets
    /\ MetsOf(model, q) \ {m} # {} =>
          Head(stack').mets = MetsOf(model, q) \ {m}

C22_OneReversibleIsRestricted ==
    [][\A m \in Mets : \A q \in Rxns :
          (CalledOn(m) /\ OneReversible(m, q)) =>
             /\ (\A r \in LiveRxns(m) \ {q} : m \in Products(model, r)) =>
                   /\ RestrictedAndRevisited(m, q)
                   /\ m \in Reactants(model', q)
             /\ (\A r \in LiveRxns(m) \ {q} : m \in Reactants(model, r)) =>
                   /\ RestrictedAndRevisited(m, q)
                   /\ m \in Products(model', q)]_vars

\* both kinds of restriction have happened, one of them on a reaction with
\* a second metabolite, and its loop is running
C22_Witness ==
    /\ prog = "dead_end_test" /\ de_pc = "loop"
    /\ Len(fwd_only) > 0 /\ Len(rev_only) > 0
    /\ stack # <<>> /\ Head(stack).guarded
    /\ \E q \in Rxns : /\ InList(q, rev_only)
                       /\ ~InList(q, dead_end_rxns)
                       /\ Cardinality(MetsOf(model, q)) = 2


(***************************************************************************)
(* C23: duplicate_test lists two reactions with the same set of            *)
(* metabolites as coefficient duplicates of each other iff their           *)
(* stoichiometric ratios differ: not when one is the other written in the  *)
(* opposite direction or with all coefficients scaled by one factor.       *)
(***************************************************************************)
\* the duplicate_test_coefficients entry of r names q
ListedAsCoefficient(r, q) == InList(q, stoich_dupes[r])

\* the coefficients of r are those of q times one (positive or negative)
\* factor
SameRatios(mdl, r, q) ==
    \A m, n \in DOMAIN mdl.S[r] :
        mdl.S[r][m] * mdl.S[q][n] = mdl.S[r][n] * mdl.S[q][m]

C23_CoefficientDupesIffRatiosDiffer ==
    (prog = "duplicate_test" /\ dup_pc = "done") =>
        \A r, q \in Rxns :
            (r # q /\ MetsOf(given_model, r) = MetsOf(given_model, q)) =>
                (ListedAsCoefficient(r, q) <=> ~SameRatios(given_model, r, q))

\* what duplicate_test returns: two reactions are coefficient duplicates
\* iff they have the same metabolites and any coefficient of one is not the
\* coefficient of the other, reversed and scaled reactions included
C23_CoefficientDupesIffAnyDiffers ==
    (prog = "duplicate_test" /\ dup_pc = "done") =>
        \A r, q \in Rxns :
            r # q =>
               (ListedAsCoefficient(r, q) <=>
                   /\ MetsOf(given_model, r) = MetsOf(given_model, q)
                   /\ given_model.S[r] # given_model.S[q])

\* a reaction and the same reaction with every coefficient doubled were
\* compared, and so were a reaction and its reverse
C23_Witness ==
    /\ prog = "duplicate_test" /\ dup_pc = "done"
    /\ \E r, q \in Rxns :
         /\ \A m \in DOMAIN given_model.S[r] :
               given_model.S[r][m] = 2 * given_model.S[q][m]
         /\ ListedAsCoefficient(r, q) /\ ListedAsCoefficient(q, r)
    /\ \E r, q \in Rxns :
         /\ \A m \in DOMAIN given_model.S[r] :
               given_model.S[r][m] = 0 - given_model.S[q][m]
         /\ ListedAsCoefficient(r, q)


(***************************************************************************)
(* C24: for two reactions with different sets of metabolites,              *)
(* duplicate_test lists them as redox duplicates of each other iff each of *)
(* them has both members of one of the pairs of redox_pairs and, with the  *)
(* metabolites of redox_pairs and proton_ids removed, the two reactions    *)
(* are the same reaction and have a metabolite left.                       *)
(***************************************************************************)
\* the duplicate_test_redox entry of r names q
ListedAsRedox(r, q) == InList(q, redox_dupes[r])

\* r has both members of a pair of redox_pairs
HasRedoxPair(r) ==
    \E k \in 1..Len(redox_pairs) :
        /\ redox_pairs[k][1] \in MetsOf(given_model, r)
        /\ redox_pairs[k][2] \in MetsOf(given_model, r)

\* r without the redox carriers and protons: the coefficients that are left
Stripped(r) ==
    [m \in ModelMets(given_model) \ RedoxIds(redox_pairs, proton_ids) |->
        given_model.S[r][m]]

C24_RedoxIffStrippedIdentical ==
    (prog = "duplicate_test" /\ dup_pc = "done") =>
        \A r, q \in Rxns :
            (r # q /\ MetsOf(given_model, r) # MetsOf(given_model, q)) =>
                (ListedAsRedox(r, q) <=>
                    /\ HasRedoxPair(r) /\ HasRedoxPair(q)
                    /\ Stripped(r) = Stripped(q)
                    /\ \E m \in DOMAIN Stripped(r) : Stripped(r)[m] # 0)

\* what duplicate_test returns: the pair is listed iff the redox comparison
\* is not given up (two pairs and a proton id, or verbose = 0), each
\* reaction has both members of a pair, and the metabolites left after the
\* removal are the same and not none, whatever their coefficients
C24_RedoxIffSameMetsLeft ==
    (prog = "duplicate_test" /\ dup_pc = "done") =>
        \A r, q \in Rxns :
            r # q =>
                (ListedAsRedox(r, q) <=>
                    /\ MetsOf(given_model, r) # MetsOf(given_model, q)
                    /\ ~RedoxSkipped(redox_pairs, proton_ids, dup_verbose)
                    /\ HasRedoxPair(r) /\ HasRedoxPair(q)
                    /\ {m \in DOMAIN Stripped(r) : Stripped(r)[m] # 0}
                         = {m \in DOMAIN Stripped(q) : Stripped(q)[m] # 0}
                    /\ \E m \in DOMAIN Stripped(r) : Stripped(r)[m] # 0)

\* two reactions that use different carriers were listed as redox
\* duplicates: once with the same coefficients left, once with different ones
C24_Witness ==
    /\ prog = "duplicate_test" /\ dup_pc = "done"
    /\ Len(redox_pairs) = 2 /\ proton_ids # <<>>
    /\ \E r, q \in Rxns :
         /\ ListedAsRedox(r, q) /\ ListedAsRedox(q, r)
         /\ Stripped(r) = Stripped(q)
         /\ ~(HasRedoxPair(r) /\ redox_pairs[1][1] \in MetsOf(given_model, q))
    /\ \E r, q \in Rxns :
         /\ ListedAsRedox(r, q)
         /\ Stripped(r) # Stripped(q)


(***************************************************************************)
(* C25: every evaluation of a target by a worker of the FVA pool starts    *)
(* with all objective coefficients at 0: between two tasks the objective   *)
(* of the worker's model is zero, whether the task before returned a value *)
(* or raised, and when the solver is called the objective is that of the   *)
(* target alone, whatever the worker evaluated before.                     *)
(***************************************************************************)
\* the objective a target asks for: its own coefficients, 0 elsewhere
TargetObjective(target) ==
    set_linear_coefficients(ZeroObjective,
                            CoefsOf(Split(target, "+"), <<>>).coefs)

\* the objective is zero between tasks and the target's own at the solver
ObjectiveIsTargets ==
    /\ w_pc = "idle" => objective = ZeroObjective
    /\ w_pc \in {"solve", "revert"} =>
          objective = TargetObjective(Head(w_queue))

C25_EveryTargetStartsFromZero ==
    prog = "fva_worker" => ObjectiveIsTargets

\* what _fva_step does: the objective is the target's own as long as no
\* task of this worker process has raised in the solver call; the
\* coefficients of a task that raised there stay set
C25_ZeroUnlessATaskRaised ==
    prog = "fva_worker" =>
        /\ ~w_raised => ObjectiveIsTargets
        /\ (w_pc = "idle" /\ objective # ZeroObjective) =>
              \E k \in 1..Len(w_done) :
                  /\ w_done[k].end = "raised"
                  /\ \E id \in WorkerRxnIds :
                        /\ TargetObjective(w_done[k].target)[id].forward # 0
                        /\ objective[id] # ZeroObjective[id]

\* the worker returned the values of a single reaction and of a combination
\* with a minus sign, and is at the solver for a third target
C25_Witness ==
    /\ prog = "fva_worker" /\ w_pc = "solve" /\ ~w_raised
    /\ Len(w_done) = 2
    /\ w_done[1].end = "value" /\ w_done[2].end = "value"
    /\ Len(w_done[1].target) = 1
    /\ \E k \in 1..Len(w_done[2].target) : w_done[2].target[k] = "-"
    /\ objective = TargetObjective(Head(w_queue))
    /\ objective # TargetObjective(w_done[2].target)


(***************************************************************************)
(* C26: constrain_reversible_rxns widens no reaction: the fluxes the       *)
(* returned bounds of a reversible reaction that is no exchange reaction   *)
(* allow, read in the direction the reaction had, lie within those its     *)
(* bounds allowed before, whatever the FVA table holds, and the bounds of  *)
(* every other reaction are as before.                                     *)
(***************************************************************************)
\* the reaction is written the other way round in the returned model
CrFlipped(r) == cr_model.S[r] # cr_given.S[r]

\* the least and the greatest flux the returned bounds allow, in the
\* direction the reaction had in given_model
CrLowest(r) ==
    IF CrFlipped(r) THEN FloatNeg(cr_model.ub[r]) ELSE cr_model.lb[r]

CrHighest(r) ==
    IF CrFlipped(r) THEN FloatNeg(cr_model.lb[r]) ELSE cr_model.ub[r]

C26_NeverWidens ==
    (prog = "constrain_reversible_rxns" /\ cr_pc = "done") =>
        \A r \in Rxns :
            IF r \in CrRevRxns(cr_given)
            THEN /\ FloatLe(cr_given.lb[r], CrLowest(r))
                 /\ FloatLe(CrHighest(r), cr_given.ub[r])
            ELSE /\ cr_model.lb[r] = cr_given.lb[r]
                 /\ cr_model.ub[r] = cr_given.ub[r]

\* what constrain_reversible_rxns returns: no reaction is widened when
\* every minimum and maximum is a number within the bounds of its reaction
\* and a multiple of a thousandth, and the reactions found to run backwards
\* only have an upper bound that is not above the negated lower bound
C26_NarrowsWithinFoundRanges ==
    (prog = "constrain_reversible_rxns" /\ cr_pc = "done") =>
        \A r \in Rxns :
            IF r \in CrRevRxns(cr_given)
            THEN (/\ cr_results[r].minimum.k = "num"
                  /\ cr_results[r].maximum.k = "num"
                  /\ FloatLe(cr_given.lb[r], cr_results[r].minimum)
                  /\ FloatLe(cr_results[r].maximum, cr_given.ub[r])
                  /\ round3(cr_results[r].maximum) = cr_results[r].maximum
                  /\ (CrFlipped(r) =>
                         FloatLe(cr_given.ub[r], FloatNeg(cr_given.lb[r]))))
                 => /\ FloatLe(cr_given.lb[r], CrLowest(r))
                    /\ FloatLe(CrHighest(r), cr_given.ub[r])
            ELSE /\ cr_model.lb[r] = cr_given.lb[r]
                 /\ cr_model.ub[r] = cr_given.ub[r]
                 /\ cr_model.S[r] = cr_given.S[r]

\* a reaction was flipped, another one got the range the table has for it,
\* and both lie within their old bounds
C26_Witness ==
    /\ prog = "constrain_reversible_rxns" /\ cr_pc = "done"
    /\ \E r, q \in CrRevRxns(cr_given) :
         /\ CrFlipped(r)
         /\ cr_given.ub[r] = Whole(1000) /\ cr_given.lb[r] = Whole(-1000)
         /\ ~CrFlipped(q)
         /\ cr_model.lb[q] = Whole(-10) /\ cr_given.lb[q] = Whole(-1000)
         /\ cr_model.ub[q] = cr_results[q].maximum


(***************************************************************************)
(* C27: the table a test returns and the error it raises are the same for  *)
(* every value of verbose: what a call of duplicate_test or of             *)
(* diphosphate_test ends with is what the call with the same model and     *)
(* lists and any other verbose ends with.                                  *)
(***************************************************************************)
\* the diphosphate_test column diphosphate_test(mdl, ppi, pis, verbose = v)
\* returns
DiphTable(mdl, ppi, pis, v) ==
    [r \in Rxns |-> IF NoIdsGiven(ppi, pis, v) THEN "N/A"
                    ELSE DiphResult(mdl, ppi, pis, r)]

\* the error and the duplicate_test_redox column
\* duplicate_test(mdl, pairs, protons, verbose = v) ends with
DupRedoxTable(mdl, pairs, protons, v) ==
    LET args == RedoxArgs(mdl, pairs, protons, v)
    IN [exc |-> args.exc,
        na |-> args.redox_mets = {},
        dupes |-> [r \in Rxns |->
            {q \in Rxns \ {r} :
                /\ args.exc = "none"
                /\ MetsOf(mdl, r) # MetsOf(mdl, q)
                /\ IF r < q
                   THEN IsRedoxDupe(mdl, pairs, args.redox_mets, r, q)
                   ELSE IsRedoxDupe(mdl, pairs, args.redox_mets, q, r)}]]

\* the same of the call that has ended
DupRedoxReturned ==
    [exc |-> dup_exc,
     na |-> redox_mets = {},
     dupes |-> [r \in Rxns |-> {q \in Rxns : InList(q, redox_dupes[r])}]]

DiphEnded == prog = "diphosphate_test" /\ diph_pc = "done"

DupEnded == prog = "duplicate_test" /\ dup_pc \in {"done", "raised"}

C27_SameForEveryVerbose ==
    /\ DiphEnded =>
          \A v \in VerboseInputs :
              [r \in Rxns |-> DiphEntry(r)]
                  = DiphTable(given_model, ppi_ids, pi_ids, v)
    /\ DupEnded =>
          \A v \in VerboseInputs :
              DupRedoxReturned
                  = DupRedoxTable(given_model, redox_pairs, proton_ids, v)

\* what the tests return: the same for every verbose when diphosphate_test
\* is given both lists of ids, and when duplicate_test is given at least
\* two redox pairs and a proton id
C27_SameWhenListsAreGiven ==
    /\ (DiphEnded /\ ppi_ids # {} /\ pi_ids # {}) =>
          \A v \in VerboseInputs :
              [r \in Rxns |-> DiphEntry(r)]
                  = DiphTable(given_model, ppi_ids, pi_ids, v)
    /\ (DupEnded /\ Len(redox_pairs) >= 2 /\ proton_ids # <<>>) =>
          \A v \in VerboseInputs :
              DupRedoxReturned
                  = DupRedoxTable(given_model, redox_pairs, proton_ids, v)

\* duplicate_test has returned redox duplicates under verbose = 1
C27_Witness ==
    /\ prog = "duplicate_test" /\ dup_pc = "done" /\ dup_verbose = 1
    /\ Len(redox_pairs) >= 2 /\ proton_ids # <<>>
    /\ \E r \in Rxns : redox_dupes[r] # <<>>


(***************************************************************************)
(* C28: the set of dead-end metabolites, the set of dead-end reactions and *)
(* the result of every reaction that dead_end_test ends with are those of  *)
(* the run that takes the metabolites of the model and of every reaction   *)
(* by increasing index, in whichever order the run itself took them.       *)
(***************************************************************************)
\* the lists dead_end_test has after its loop when every list of
\* metabolites is gone through by increasing index
InIndexOrder(mdl) ==
    RunOuter([model |-> mdl, dead_end_mets |-> <<>>, dead_end_rxns |-> <<>>,
              fwd_only |-> <<>>, rev_only |-> <<>>], Mets, FALSE)

EditedAsReported(r) ==
    LET kind == ed_results[r].kind
    IN IF kind = "ok"
       THEN ReactionOf(ed_model, r) = ReactionOf(ed_given, r)
       ELSE IF kind = "dead_end"
       THEN ed_model.lb[r] = 0 /\ ed_model.ub[r] = 0
       ELSE ReactionOf(ed_model, r) = ReactionOf(ed_working, r)

EditEnded ==
    prog = "edit_dead_end_bounds" /\ ed_pc \in {"done", "raised"}

C29_EditReproducesWorkingCopy ==
    EditEnded => (ed_exc = "none" /\ \A r \in Rxns : EditedAsReported(r))

\* the same of the calls that return; a call raises only at a reaction
\* reported with a list of dead-end metabolites whose upper bound is below 0
C29_ReproducesWhenItReturns ==
    /\ (EditEnded /\ ed_pc = "done") => \A r \in Rxns : EditedAsReported(r)
    /\ (EditEnded /\ ed_pc = "raised") =>
          \E r \in Rxns : /\ ed_results[r].kind = "dead_end"
                          /\ ed_given.ub[r] < 0
                          /\ ed_exc = "ValueError"

\* the edits have been made for a table with a reaction restricted to its
\* reverse direction, a dead-end reaction and a reaction that is `ok`
C29_Witness ==
    /\ prog = "edit_dead_end_bounds" /\ ed_pc = "done"
    /\ \E r \in Rxns : ed_results[r].kind = "only when going forwards"
    /\ \E r \in Rxns : ed_results[r].kind = "dead_end"
    /\ \E r \in Rxns : ed_results[r].kind = "ok"


(***************************************************************************)
(* C30: in the table dilution_test returns, the dilution_test value of     *)
(* every reaction is a tag that is not empty: the '' the labels start with *)
(* is never returned, and a list of metabolites has at least one member.   *)
(***************************************************************************)
C30_NoEmptyValue ==
    (prog = "dilution_test" /\ dil_pc = "done") =>
        \A r \in Rxns :
            /\ dil_out[r].kind # ""
            /\ dil_out[r].kind = "blocked" => dil_out[r].mets # {}

\* what is returned: '' for exactly the reactions none of whose metabolites
\* had a task that returned a value, a tag for every other reaction
C30_EmptyWhereNoTaskReturned ==
    (prog = "dilution_test" /\ dil_pc = "done") =>
        \A r \in Rxns :
            dil_out[r].kind = ""
                <=> \A m \in MetsOf(given_model, r) : met_dict[m] = ""

\* a table has been returned with '' for one reaction and a tag for another
C30_Witness ==
    /\ prog = "dilution_test" /\ dil_pc = "done"
    /\ \E r \in Rxns : dil_out[r].kind = ""
    /\ \E r \in Rxns : dil_out[r].kind \in {"ok", "always blocked"}

====
